---- MODULE Spec2Model ----
(***************************************************************************)
(* Model of the deliverables-pusher agent: the Planner (agent/planner.py), *)
(* the Executor (agent/agent/executor.py), the module-level executor       *)
(* helpers (agent/executor.py), the document generator                     *)
(* (agent/README_generator.py) and the emailer (agent/emailer.py).         *)
(*                                                                         *)
(* Text is a sequence of one-character strings, so that formatting,        *)
(* substring search and line splitting are computed and not assumed.       *)
(* A path is a sequence of component names plus a flag for the trailing    *)
(* separator; the repository root is the empty component sequence.         *)
(* The backtick and the em dash are written "U+0060" and "U+2014".         *)
(***************************************************************************)
EXTENDS Integers, Sequences, FiniteSets, TLC

VARIABLES
  fs,        \* the repository tree: node -> [kind, data]
  git,       \* the version-control side: [lib, isRepo, hasOrigin, head, index, commits, pushes]
  planner,   \* the DeliverablePlanner instance: [required_files, plan]
  ret,       \* the last operation called: its name, arguments, prior state and return value
  pc,        \* position of the plan-executor process: idle, walk, done, raised
  runPlan,   \* the plan the current run walks
  idx,       \* number of actions of runPlan already dispatched
  results,   \* the results dict of execute_plan, as an insertion-ordered list of entries
  calls,     \* the Executor operations and external processes the current run invoked
  logs,      \* the result logs under interaction_logs/, by timestamp of the file name
  clock      \* the wall clock, in seconds

vars == <<fs, git, planner, ret, pc, runPlan, idx, results, calls, logs, clock>>

----------------------------------------------------------------------------
(* Bounds of the model *)

\* longest list of paths or of deliverables handed to an operation
MaxFiles == 2
\* longest list of deliverables or of recipients handed to a document generator
MaxItems == 2
\* longest action list of a plan
MaxActions == 2
\* last second of the wall clock
MaxClock == 2
\* most commits made, and most pushes made, by the version-control operations
MaxCommits == 2
MaxPushes == 2

----------------------------------------------------------------------------
(* Text helpers *)

RECURSIVE Concat(_)
\* "".join(parts)
Concat(parts) ==
  IF parts = <<>> THEN <<>> ELSE Head(parts) \o Concat(Tail(parts))

\* the letters of the model's alphabet that have a lowercase form other than
\* themselves: A-Z, the capitals of Latin-1, the dotted capital I (U+0130),
\* the Kelvin sign (U+212A) and the Angstrom sign (U+212B)
UpperLetters ==
  <<"A", "B", "C", "D", "E", "F", "G", "H", "I", "J", "K", "L", "M", "N", "O", "P", "Q", "R",
    "S", "T", "U", "V", "W", "X", "Y", "Z", "U+00C0", "U+00C1", "U+00C2", "U+00C3", "U+00C4",
    "U+00C5", "U+00C6", "U+00C7", "U+00C8", "U+00C9", "U+00CA", "U+00CB", "U+00CC", "U+00CD",
    "U+00CE", "U+00CF", "U+00D0", "U+00D1", "U+00D2", "U+00D3", "U+00D4", "U+00D5", "U+00D6",
    "U+00D8", "U+00D9", "U+00DA", "U+00DB", "U+00DC", "U+00DD", "U+00DE", "U+0130", "U+212A",
    "U+212B">>

\* their simple lowercase forms, position by position
LowerLetters ==
  <<"a", "b", "c", "d", "e", "f", "g", "h", "i", "j", "k", "l", "m", "n", "o", "p", "q", "r",
    "s", "t", "u", "v", "w", "x", "y", "z", "U+00E0", "U+00E1", "U+00E2", "U+00E3", "U+00E4",
    "U+00E5", "U+00E6", "U+00E7", "U+00E8", "U+00E9", "U+00EA", "U+00EB", "U+00EC", "U+00ED",
    "U+00EE", "U+00EF", "U+00F0", "U+00F1", "U+00F2", "U+00F3", "U+00F4", "U+00F5", "U+00F6",
    "U+00F8", "U+00F9", "U+00FA", "U+00FB", "U+00FC", "U+00FD", "U+00FE", "i", "k", "U+00E5">>

\* the simple lowercase form of one character (one character for one), which
\* is what the regular-expression engine folds a character to under (?i)
LowerChar(c) ==
  IF \E k \in 1..Len(UpperLetters) : UpperLetters[k] = c
    THEN LowerLetters[CHOOSE k \in 1..Len(UpperLetters) : UpperLetters[k] = c]
    ELSE c

\* str.lower(): the simple form of every character, except the dotted
\* capital I, which becomes "i" followed by the combining dot above (U+0307)
LowerText(s) ==
  Concat([k \in 1..Len(s) |->
            IF s[k] = "U+0130" THEN <<"i", "U+0307">> ELSE <<LowerChar(s[k])>>])

\* needle occurs in hay starting at position k (1-based)
OccursAt(hay, needle, k) ==
  /\ k >= 1
  /\ k + Len(needle) - 1 <= Len(hay)
  /\ \A j \in 1..Len(needle) : hay[k + j - 1] = needle[j]

\* Python's "needle in hay"
Contains(hay, needle) == \E k \in 1..(Len(hay) + 1) : OccursAt(hay, needle, k)

\* two folded characters that (?i) takes for the same: equal ones, and the
\* pairs the engine adds to the lowercase forms, "s" with the long s (U+017F)
\* and "i" with the dotless i (U+0131)
FoldedEqual(a, b) ==
  \/ a = b
  \/ {a, b} = {"s", "U+017F"}
  \/ {a, b} = {"i", "U+0131"}

\* re.search of a literal with the (?i) flag
ContainsIgnoreCase(hay, needle) ==
  LET h == [k \in 1..Len(hay) |-> LowerChar(hay[k])]
      n == [k \in 1..Len(needle) |-> LowerChar(needle[k])]
  IN  \E k \in 1..(Len(h) - Len(n) + 1) :
        \A j \in 1..Len(n) : FoldedEqual(h[k + j - 1], n[j])

StartsWith(hay, needle) == OccursAt(hay, needle, 1)

RECURSIVE JoinWith(_, _)
\* sep.join(parts)
JoinWith(sep, parts) ==
  IF parts = <<>> THEN <<>>
  ELSE IF Len(parts) = 1 THEN Head(parts)
  ELSE Head(parts) \o sep \o JoinWith(sep, Tail(parts))

RECURSIVE SplitLines(_)
\* text.split("\n")
SplitLines(s) ==
  IF \E k \in 1..Len(s) : s[k] = "\n"
    THEN LET k == CHOOSE k \in 1..Len(s) : s[k] = "\n" /\ \A j \in 1..(k - 1) : s[j] # "\n"
         IN  <<SubSeq(s, 1, k - 1)>> \o SplitLines(SubSeq(s, k + 1, Len(s)))
    ELSE <<s>>

Digits == <<"0", "1", "2", "3", "4", "5", "6", "7", "8", "9">>

RECURSIVE DecimalText(_)
\* str(n) for n >= 0
DecimalText(n) ==
  IF n < 10 THEN <<Digits[n + 1]>> ELSE DecimalText(n \div 10) \o <<Digits[(n % 10) + 1]>>

\* f"{n:02d}": decimal, left-padded with zeros to width 2
Format02d(n) == IF n < 10 THEN <<"0">> \o DecimalText(n) ELSE DecimalText(n)

----------------------------------------------------------------------------
(* String constants of the source, as character sequences *)

\* agent/executor.py:47: "# Placeholder for "
PlaceholderPrefix ==
  <<"#", " ", "P", "l", "a", "c", "e", "h", "o", "l", "d", "e", "r", " ", "f", "o", "r", " ">>

\* emailer.DEFAULT_TO: the addresses
DefaultTo ==
  [\* agent/emailer.py:9: "yasuhironose@imbesideyou.world"
   r1 |->
     <<"y", "a", "s", "u", "h", "i", "r", "o", "n", "o", "s", "e", "@", "i", "m", "b", "e", "s",
       "i", "d", "e", "y", "o", "u", ".", "w", "o", "r", "l", "d">>,
   \* agent/emailer.py:10: "sanskarnanegaonkar@imbesideyou.world"
   r2 |->
     <<"s", "a", "n", "s", "k", "a", "r", "n", "a", "n", "e", "g", "a", "o", "n", "k", "a", "r",
       "@", "i", "m", "b", "e", "s", "i", "d", "e", "y", "o", "u", ".", "w", "o", "r", "l", "d">>,
   \* agent/emailer.py:11: "mamindla@imbesideyou.world"
   r3 |->
     <<"m", "a", "m", "i", "n", "d", "l", "a", "@", "i", "m", "b", "e", "s", "i", "d", "e", "y",
       "o", "u", ".", "w", "o", "r", "l", "d">>,
   \* agent/emailer.py:12: "Animeshmishra@imbesideyou.world"
   r4 |->
     <<"A", "n", "i", "m", "e", "s", "h", "m", "i", "s", "h", "r", "a", "@", "i", "m", "b", "e",
       "s", "i", "d", "e", "y", "o", "u", ".", "w", "o", "r", "l", "d">>]

\* Executor: the messages of the results
Msg ==
  [\* agent/agent/executor.py:53: "Placeholders ensured"
   PlaceholdersEnsured |->
     <<"P", "l", "a", "c", "e", "h", "o", "l", "d", "e", "r", "s", " ", "e", "n", "s", "u", "r",
       "e", "d">>,
   \* agent/agent/executor.py:52: "Failed creating "
   FailedCreating |->
     <<"F", "a", "i", "l", "e", "d", " ", "c", "r", "e", "a", "t", "i", "n", "g", " ">>,
   \* agent/agent/executor.py:61: "Validation complete"
   ValidationComplete |->
     <<"V", "a", "l", "i", "d", "a", "t", "i", "o", "n", " ", "c", "o", "m", "p", "l", "e", "t",
       "e">>,
   \* agent/agent/executor.py:66: "README not found"
   ReadmeNotFound |->
     <<"R", "E", "A", "D", "M", "E", " ", "n", "o", "t", " ", "f", "o", "u", "n", "d">>,
   \* agent/agent/executor.py:79: "README fields check"
   ReadmeFieldsCheck |->
     <<"R", "E", "A", "D", "M", "E", " ", "f", "i", "e", "l", "d", "s", " ", "c", "h", "e", "c",
       "k">>,
   \* agent/agent/executor.py:84: "No tests directory found; skipping"
   NoTests |->
     <<"N", "o", " ", "t", "e", "s", "t", "s", " ", "d", "i", "r", "e", "c", "t", "o", "r", "y",
       " ", "f", "o", "u", "n", "d", ";", " ", "s", "k", "i", "p", "p", "i", "n", "g">>,
   \* agent/agent/executor.py:95: "Tests executed"
   TestsExecuted |->
     <<"T", "e", "s", "t", "s", " ", "e", "x", "e", "c", "u", "t", "e", "d">>,
   \* agent/agent/executor.py:97: "Test run failed: "
   TestRunFailed |->
     <<"T", "e", "s", "t", " ", "r", "u", "n", " ", "f", "a", "i", "l", "e", "d", ":", " ">>,
   \* agent/agent/executor.py:112: "Git commit complete"
   GitCommitComplete |->
     <<"G", "i", "t", " ", "c", "o", "m", "m", "i", "t", " ", "c", "o", "m", "p", "l", "e", "t",
       "e">>,
   \* agent/agent/executor.py:114: "Git CLI commit failed: "
   GitCliCommitFailed |->
     <<"G", "i", "t", " ", "C", "L", "I", " ", "c", "o", "m", "m", "i", "t", " ", "f", "a", "i",
       "l", "e", "d", ":", " ">>,
   \* agent/agent/executor.py:116: "GitPython commit failed: "
   GitPythonCommitFailed |->
     <<"G", "i", "t", "P", "y", "t", "h", "o", "n", " ", "c", "o", "m", "m", "i", "t", " ", "f",
       "a", "i", "l", "e", "d", ":", " ">>,
   \* agent/agent/executor.py:126: "Git push complete"
   GitPushComplete |->
     <<"G", "i", "t", " ", "p", "u", "s", "h", " ", "c", "o", "m", "p", "l", "e", "t", "e">>,
   \* agent/agent/executor.py:128: "Git CLI push failed: "
   GitCliPushFailed |->
     <<"G", "i", "t", " ", "C", "L", "I", " ", "p", "u", "s", "h", " ", "f", "a", "i", "l", "e",
       "d", ":", " ">>,
   \* agent/agent/executor.py:130: "GitPython push failed: "
   GitPythonPushFailed |->
     <<"G", "i", "t", "P", "y", "t", "h", "o", "n", " ", "p", "u", "s", "h", " ", "f", "a", "i",
       "l", "e", "d", ":", " ">>,
   \* agent/agent/executor.py:174: "Email draft created"
   EmailDraftCreated |->
     <<"E", "m", "a", "i", "l", " ", "d", "r", "a", "f", "t", " ", "c", "r", "e", "a", "t", "e",
       "d">>,
   \* agent/agent/executor.py:176: "Failed to create email draft: "
   EmailDraftFailed |->
     <<"F", "a", "i", "l", "e", "d", " ", "t", "o", " ", "c", "r", "e", "a", "t", "e", " ", "e",
       "m", "a", "i", "l", " ", "d", "r", "a", "f", "t", ":", " ">>,
   \* agent/agent/executor.py:188: "README generation delegated"
   ReadmeDelegated |->
     <<"R", "E", "A", "D", "M", "E", " ", "g", "e", "n", "e", "r", "a", "t", "i", "o", "n", " ",
       "d", "e", "l", "e", "g", "a", "t", "e", "d">>,
   \* agent/agent/executor.py:205: "Unknown action: "
   UnknownAction |->
     <<"U", "n", "k", "n", "o", "w", "n", " ", "a", "c", "t", "i", "o", "n", ":", " ">>,
   \* agent/agent/executor.py:52: ": "
   Colon |->
     <<":", " ">>,
   \* str(None), agent/agent/executor.py:183: "None"
   None |->
     <<"N", "o", "n", "e">>,
   \* agent/agent/executor.py:183: "_"
   KeySep |->
     <<"_">>]

\* Executor.execute_plan: the action types
ActionType ==
  [\* agent/agent/executor.py:184: "create_missing_files"
   create_missing_files |->
     <<"c", "r", "e", "a", "t", "e", "_", "m", "i", "s", "s", "i", "n", "g", "_", "f", "i", "l",
       "e", "s">>,
   \* agent/agent/executor.py:186: "generate_readme"
   generate_readme |->
     <<"g", "e", "n", "e", "r", "a", "t", "e", "_", "r", "e", "a", "d", "m", "e">>,
   \* agent/agent/executor.py:189: "run_tests"
   run_tests |->
     <<"r", "u", "n", "_", "t", "e", "s", "t", "s">>,
   \* agent/agent/executor.py:191: "git_commit"
   git_commit |->
     <<"g", "i", "t", "_", "c", "o", "m", "m", "i", "t">>,
   \* agent/agent/executor.py:193: "git_push"
   git_push |->
     <<"g", "i", "t", "_", "p", "u", "s", "h">>,
   \* agent/agent/executor.py:195: "generate_email"
   generate_email |->
     <<"g", "e", "n", "e", "r", "a", "t", "e", "_", "e", "m", "a", "i", "l">>,
   \* an action type the dispatch does not know: "bogus"
   bogus |->
     <<"b", "o", "g", "u", "s">>]

\* texts of the exceptions the operations catch or let through (str(e))
Err ==
  [\* strerror of EACCES, the OSError of open() and mkdir(): "[Errno 13] Permission denied"
   Permission |->
     <<"[", "E", "r", "r", "n", "o", " ", "1", "3", "]", " ", "P", "e", "r", "m", "i", "s", "s",
       "i", "o", "n", " ", "d", "e", "n", "i", "e", "d">>,
   \* strerror of EEXIST, the FileExistsError of os.makedirs: "[Errno 17] File exists"
   FileExists |->
     <<"[", "E", "r", "r", "n", "o", " ", "1", "7", "]", " ", "F", "i", "l", "e", " ", "e", "x",
       "i", "s", "t", "s">>,
   \* strerror of ENOTDIR, the NotADirectoryError of open() and mkdir(): "[Errno 20] Not a directory"
   NotADirectory |->
     <<"[", "E", "r", "r", "n", "o", " ", "2", "0", "]", " ", "N", "o", "t", " ", "a", " ", "d",
       "i", "r", "e", "c", "t", "o", "r", "y">>,
   \* strerror of EISDIR, the IsADirectoryError of open(): "[Errno 21] Is a directory"
   IsADirectory |->
     <<"[", "E", "r", "r", "n", "o", " ", "2", "1", "]", " ", "I", "s", " ", "a", " ", "d", "i",
       "r", "e", "c", "t", "o", "r", "y">>,
   \* strerror of ENOENT, the FileNotFoundError of open() and subprocess.run: "[Errno 2] No such file or directory"
   NoSuchFile |->
     <<"[", "E", "r", "r", "n", "o", " ", "2", "]", " ", "N", "o", " ", "s", "u", "c", "h", " ",
       "f", "i", "l", "e", " ", "o", "r", " ", "d", "i", "r", "e", "c", "t", "o", "r", "y">>,
   \* OSError.__str__ with a file name: between the strerror and the name: ": '"
   PathOpen |->
     <<":", " ", "'">>,
   \* OSError.__str__ with a file name: after the name: "'"
   PathClose |->
     <<"'">>,
   \* FileNotFoundError of subprocess.run, agent/agent/executor.py:86-87: "[Errno 2] No such file or directory: 'python'"
   NoRunner |->
     <<"[", "E", "r", "r", "n", "o", " ", "2", "]", " ", "N", "o", " ", "s", "u", "c", "h", " ",
       "f", "i", "l", "e", " ", "o", "r", " ", "d", "i", "r", "e", "c", "t", "o", "r", "y", ":",
       " ", "'", "p", "y", "t", "h", "o", "n", "'">>,
   \* FileNotFoundError of subprocess.run, agent/agent/executor.py:104: "[Errno 2] No such file or directory: 'git'"
   NoGit |->
     <<"[", "E", "r", "r", "n", "o", " ", "2", "]", " ", "N", "o", " ", "s", "u", "c", "h", " ",
       "f", "i", "l", "e", " ", "o", "r", " ", "d", "i", "r", "e", "c", "t", "o", "r", "y", ":",
       " ", "'", "g", "i", "t", "'">>,
   \* subprocess.TimeoutExpired, agent/agent/executor.py:86-92: "Command '['python', '-m', 'pytest', '-q']' timed out after 600 seconds"
   Timeout |->
     <<"C", "o", "m", "m", "a", "n", "d", " ", "'", "[", "'", "p", "y", "t", "h", "o", "n", "'",
       ",", " ", "'", "-", "m", "'", ",", " ", "'", "p", "y", "t", "e", "s", "t", "'", ",", " ",
       "'", "-", "q", "'", "]", "'", " ", "t", "i", "m", "e", "d", " ", "o", "u", "t", " ", "a",
       "f", "t", "e", "r", " ", "6", "0", "0", " ", "s", "e", "c", "o", "n", "d", "s">>,
   \* subprocess.CalledProcessError, agent/agent/executor.py:104: "Command '['git', 'add', '-A']' returned non-zero exit status 128."
   AddExit128 |->
     <<"C", "o", "m", "m", "a", "n", "d", " ", "'", "[", "'", "g", "i", "t", "'", ",", " ", "'",
       "a", "d", "d", "'", ",", " ", "'", "-", "A", "'", "]", "'", " ", "r", "e", "t", "u", "r",
       "n", "e", "d", " ", "n", "o", "n", "-", "z", "e", "r", "o", " ", "e", "x", "i", "t", " ",
       "s", "t", "a", "t", "u", "s", " ", "1", "2", "8", ".">>,
   \* subprocess.CalledProcessError, agent/agent/executor.py:100-105: "Command '['git', 'commit', '-m', 'Auto: push deliverables']' returned non-zero exit status 1."
   CommitExit1 |->
     <<"C", "o", "m", "m", "a", "n", "d", " ", "'", "[", "'", "g", "i", "t", "'", ",", " ", "'",
       "c", "o", "m", "m", "i", "t", "'", ",", " ", "'", "-", "m", "'", ",", " ", "'", "A", "u",
       "t", "o", ":", " ", "p", "u", "s", "h", " ", "d", "e", "l", "i", "v", "e", "r", "a", "b",
       "l", "e", "s", "'", "]", "'", " ", "r", "e", "t", "u", "r", "n", "e", "d", " ", "n", "o",
       "n", "-", "z", "e", "r", "o", " ", "e", "x", "i", "t", " ", "s", "t", "a", "t", "u", "s",
       " ", "1", ".">>,
   \* subprocess.CalledProcessError, agent/agent/executor.py:100-105: "Command '['git', 'commit', '-m', 'Auto: push deliverables']' returned non-zero exit status 128."
   CommitExit128 |->
     <<"C", "o", "m", "m", "a", "n", "d", " ", "'", "[", "'", "g", "i", "t", "'", ",", " ", "'",
       "c", "o", "m", "m", "i", "t", "'", ",", " ", "'", "-", "m", "'", ",", " ", "'", "A", "u",
       "t", "o", ":", " ", "p", "u", "s", "h", " ", "d", "e", "l", "i", "v", "e", "r", "a", "b",
       "l", "e", "s", "'", "]", "'", " ", "r", "e", "t", "u", "r", "n", "e", "d", " ", "n", "o",
       "n", "-", "z", "e", "r", "o", " ", "e", "x", "i", "t", " ", "s", "t", "a", "t", "u", "s",
       " ", "1", "2", "8", ".">>,
   \* subprocess.CalledProcessError, agent/agent/executor.py:118-121: "Command '['git', 'push', 'origin', 'main']' returned non-zero exit status 1."
   PushExit1 |->
     <<"C", "o", "m", "m", "a", "n", "d", " ", "'", "[", "'", "g", "i", "t", "'", ",", " ", "'",
       "p", "u", "s", "h", "'", ",", " ", "'", "o", "r", "i", "g", "i", "n", "'", ",", " ", "'",
       "m", "a", "i", "n", "'", "]", "'", " ", "r", "e", "t", "u", "r", "n", "e", "d", " ", "n",
       "o", "n", "-", "z", "e", "r", "o", " ", "e", "x", "i", "t", " ", "s", "t", "a", "t", "u",
       "s", " ", "1", ".">>,
   \* subprocess.CalledProcessError, agent/agent/executor.py:118-121: "Command '['git', 'push', 'origin', 'main']' returned non-zero exit status 128."
   PushExit128 |->
     <<"C", "o", "m", "m", "a", "n", "d", " ", "'", "[", "'", "g", "i", "t", "'", ",", " ", "'",
       "p", "u", "s", "h", "'", ",", " ", "'", "o", "r", "i", "g", "i", "n", "'", ",", " ", "'",
       "m", "a", "i", "n", "'", "]", "'", " ", "r", "e", "t", "u", "r", "n", "e", "d", " ", "n",
       "o", "n", "-", "z", "e", "r", "o", " ", "e", "x", "i", "t", " ", "s", "t", "a", "t", "u",
       "s", " ", "1", "2", "8", ".">>,
   \* ValueError of Repo.remote, agent/agent/executor.py:124: "Remote named 'origin' didn't exist"
   NoOrigin |->
     <<"R", "e", "m", "o", "t", "e", " ", "n", "a", "m", "e", "d", " ", "'", "o", "r", "i", "g",
       "i", "n", "'", " ", "d", "i", "d", "n", "'", "t", " ", "e", "x", "i", "s", "t">>,
   \* git.exc.GitCommandError of repo.git.add, agent/agent/executor.py:108: "Cmd('git') failed due to: exit code(128)\n  cmdline: git add --all\n  stderr: 'fatal: Unable to create '/repo/.git/index.lock': File exists.\n\nAnother git process seems to be running in this repository, e.g.\nan editor opened by 'git commit'. Please make sure all processes\nare terminated then try again. If it still fails, a git process\nmay have crashed in this repository earlier:\nremove the file manually to continue.'"
   GitAddFailed |->
     <<"C", "m", "d", "(", "'", "g", "i", "t", "'", ")", " ", "f", "a", "i", "l", "e", "d", " ",
       "d", "u", "e", " ", "t", "o", ":", " ", "e", "x", "i", "t", " ", "c", "o", "d", "e", "(",
       "1", "2", "8", ")", "\n", " ", " ", "c", "m", "d", "l", "i", "n", "e", ":", " ", "g", "i",
       "t", " ", "a", "d", "d", " ", "-", "-", "a", "l", "l", "\n", " ", " ", "s", "t", "d", "e",
       "r", "r", ":", " ", "'", "f", "a", "t", "a", "l", ":", " ", "U", "n", "a", "b", "l", "e",
       " ", "t", "o", " ", "c", "r", "e", "a", "t", "e", " ", "'", "/", "r", "e", "p", "o", "/",
       ".", "g", "i", "t", "/", "i", "n", "d", "e", "x", ".", "l", "o", "c", "k", "'", ":", " ",
       "F", "i", "l", "e", " ", "e", "x", "i", "s", "t", "s", ".", "\n", "\n", "A", "n", "o", "t",
       "h", "e", "r", " ", "g", "i", "t", " ", "p", "r", "o", "c", "e", "s", "s", " ", "s", "e",
       "e", "m", "s", " ", "t", "o", " ", "b", "e", " ", "r", "u", "n", "n", "i", "n", "g", " ",
       "i", "n", " ", "t", "h", "i", "s", " ", "r", "e", "p", "o", "s", "i", "t", "o", "r", "y",
       ",", " ", "e", ".", "g", ".", "\n", "a", "n", " ", "e", "d", "i", "t", "o", "r", " ", "o",
       "p", "e", "n", "e", "d", " ", "b", "y", " ", "'", "g", "i", "t", " ", "c", "o", "m", "m",
       "i", "t", "'", ".", " ", "P", "l", "e", "a", "s", "e", " ", "m", "a", "k", "e", " ", "s",
       "u", "r", "e", " ", "a", "l", "l", " ", "p", "r", "o", "c", "e", "s", "s", "e", "s", "\n",
       "a", "r", "e", " ", "t", "e", "r", "m", "i", "n", "a", "t", "e", "d", " ", "t", "h", "e",
       "n", " ", "t", "r", "y", " ", "a", "g", "a", "i", "n", ".", " ", "I", "f", " ", "i", "t",
       " ", "s", "t", "i", "l", "l", " ", "f", "a", "i", "l", "s", ",", " ", "a", " ", "g", "i",
       "t", " ", "p", "r", "o", "c", "e", "s", "s", "\n", "m", "a", "y", " ", "h", "a", "v", "e",
       " ", "c", "r", "a", "s", "h", "e", "d", " ", "i", "n", " ", "t", "h", "i", "s", " ", "r",
       "e", "p", "o", "s", "i", "t", "o", "r", "y", " ", "e", "a", "r", "l", "i", "e", "r", ":",
       "\n", "r", "e", "m", "o", "v", "e", " ", "t", "h", "e", " ", "f", "i", "l", "e", " ", "m",
       "a", "n", "u", "a", "l", "l", "y", " ", "t", "o", " ", "c", "o", "n", "t", "i", "n", "u",
       "e", ".", "'">>,
   \* git.exc.HookExecutionError of repo.index.commit, agent/agent/executor.py:111: "Hook('/repo/.git/hooks/pre-commit') failed due to: exit code(1)\n  cmdline: /repo/.git/hooks/pre-commit"
   HookFailed |->
     <<"H", "o", "o", "k", "(", "'", "/", "r", "e", "p", "o", "/", ".", "g", "i", "t", "/", "h",
       "o", "o", "k", "s", "/", "p", "r", "e", "-", "c", "o", "m", "m", "i", "t", "'", ")", " ",
       "f", "a", "i", "l", "e", "d", " ", "d", "u", "e", " ", "t", "o", ":", " ", "e", "x", "i",
       "t", " ", "c", "o", "d", "e", "(", "1", ")", "\n", " ", " ", "c", "m", "d", "l", "i", "n",
       "e", ":", " ", "/", "r", "e", "p", "o", "/", ".", "g", "i", "t", "/", "h", "o", "o", "k",
       "s", "/", "p", "r", "e", "-", "c", "o", "m", "m", "i", "t">>,
   \* git push, the branch missing, agent/agent/executor.py:125: "Cmd('git') failed due to: exit code(1)\n  cmdline: git push --porcelain -- origin main\n  stderr: 'error: src refspec main does not match any\nerror: failed to push some refs to 'http://r''"
   GitPushNoBranch |->
     <<"C", "m", "d", "(", "'", "g", "i", "t", "'", ")", " ", "f", "a", "i", "l", "e", "d", " ",
       "d", "u", "e", " ", "t", "o", ":", " ", "e", "x", "i", "t", " ", "c", "o", "d", "e", "(",
       "1", ")", "\n", " ", " ", "c", "m", "d", "l", "i", "n", "e", ":", " ", "g", "i", "t", " ",
       "p", "u", "s", "h", " ", "-", "-", "p", "o", "r", "c", "e", "l", "a", "i", "n", " ", "-",
       "-", " ", "o", "r", "i", "g", "i", "n", " ", "m", "a", "i", "n", "\n", " ", " ", "s", "t",
       "d", "e", "r", "r", ":", " ", "'", "e", "r", "r", "o", "r", ":", " ", "s", "r", "c", " ",
       "r", "e", "f", "s", "p", "e", "c", " ", "m", "a", "i", "n", " ", "d", "o", "e", "s", " ",
       "n", "o", "t", " ", "m", "a", "t", "c", "h", " ", "a", "n", "y", "\n", "e", "r", "r", "o",
       "r", ":", " ", "f", "a", "i", "l", "e", "d", " ", "t", "o", " ", "p", "u", "s", "h", " ",
       "s", "o", "m", "e", " ", "r", "e", "f", "s", " ", "t", "o", " ", "'", "h", "t", "t", "p",
       ":", "/", "/", "r", "'", "'">>,
   \* git.exc.GitCommandError of origin.push, agent/agent/executor.py:125: "Cmd('git') failed due to: exit code(128)\n  cmdline: git push --porcelain -- origin main\n  stderr: 'fatal: unable to access 'http://r/': Could not resolve host: r'"
   GitPushFailed |->
     <<"C", "m", "d", "(", "'", "g", "i", "t", "'", ")", " ", "f", "a", "i", "l", "e", "d", " ",
       "d", "u", "e", " ", "t", "o", ":", " ", "e", "x", "i", "t", " ", "c", "o", "d", "e", "(",
       "1", "2", "8", ")", "\n", " ", " ", "c", "m", "d", "l", "i", "n", "e", ":", " ", "g", "i",
       "t", " ", "p", "u", "s", "h", " ", "-", "-", "p", "o", "r", "c", "e", "l", "a", "i", "n",
       " ", "-", "-", " ", "o", "r", "i", "g", "i", "n", " ", "m", "a", "i", "n", "\n", " ", " ",
       "s", "t", "d", "e", "r", "r", ":", " ", "'", "f", "a", "t", "a", "l", ":", " ", "u", "n",
       "a", "b", "l", "e", " ", "t", "o", " ", "a", "c", "c", "e", "s", "s", " ", "'", "h", "t",
       "t", "p", ":", "/", "/", "r", "/", "'", ":", " ", "C", "o", "u", "l", "d", " ", "n", "o",
       "t", " ", "r", "e", "s", "o", "l", "v", "e", " ", "h", "o", "s", "t", ":", " ", "r", "'">>,
   \* git.exc.GitCommandNotFound of repo.git.add, agent/agent/executor.py:108: "Cmd('git') not found due to: FileNotFoundError('[Errno 2] No such file or directory: 'git'')\n  cmdline: git add --all"
   GitNotFoundAdd |->
     <<"C", "m", "d", "(", "'", "g", "i", "t", "'", ")", " ", "n", "o", "t", " ", "f", "o", "u",
       "n", "d", " ", "d", "u", "e", " ", "t", "o", ":", " ", "F", "i", "l", "e", "N", "o", "t",
       "F", "o", "u", "n", "d", "E", "r", "r", "o", "r", "(", "'", "[", "E", "r", "r", "n", "o",
       " ", "2", "]", " ", "N", "o", " ", "s", "u", "c", "h", " ", "f", "i", "l", "e", " ", "o",
       "r", " ", "d", "i", "r", "e", "c", "t", "o", "r", "y", ":", " ", "'", "g", "i", "t", "'",
       "'", ")", "\n", " ", " ", "c", "m", "d", "l", "i", "n", "e", ":", " ", "g", "i", "t", " ",
       "a", "d", "d", " ", "-", "-", "a", "l", "l">>,
   \* git.exc.GitCommandNotFound of origin.push, agent/agent/executor.py:125: "Cmd('git') not found due to: FileNotFoundError('[Errno 2] No such file or directory: 'git'')\n  cmdline: git push --porcelain -- origin main"
   GitNotFoundPush |->
     <<"C", "m", "d", "(", "'", "g", "i", "t", "'", ")", " ", "n", "o", "t", " ", "f", "o", "u",
       "n", "d", " ", "d", "u", "e", " ", "t", "o", ":", " ", "F", "i", "l", "e", "N", "o", "t",
       "F", "o", "u", "n", "d", "E", "r", "r", "o", "r", "(", "'", "[", "E", "r", "r", "n", "o",
       " ", "2", "]", " ", "N", "o", " ", "s", "u", "c", "h", " ", "f", "i", "l", "e", " ", "o",
       "r", " ", "d", "i", "r", "e", "c", "t", "o", "r", "y", ":", " ", "'", "g", "i", "t", "'",
       "'", ")", "\n", " ", " ", "c", "m", "d", "l", "i", "n", "e", ":", " ", "g", "i", "t", " ",
       "p", "u", "s", "h", " ", "-", "-", "p", "o", "r", "c", "e", "l", "a", "i", "n", " ", "-",
       "-", " ", "o", "r", "i", "g", "i", "n", " ", "m", "a", "i", "n">>,
   \* TypeError text, agent/agent/executor.py:47: "'NoneType' object is not iterable"
   NotIterable |->
     <<"'", "N", "o", "n", "e", "T", "y", "p", "e", "'", " ", "o", "b", "j", "e", "c", "t", " ",
       "i", "s", " ", "n", "o", "t", " ", "i", "t", "e", "r", "a", "b", "l", "e">>,
   \* AttributeError text, agent/agent/executor.py:202: "'NoneType' object has no attribute 'get'"
   NoGet |->
     <<"'", "N", "o", "n", "e", "T", "y", "p", "e", "'", " ", "o", "b", "j", "e", "c", "t", " ",
       "h", "a", "s", " ", "n", "o", " ", "a", "t", "t", "r", "i", "b", "u", "t", "e", " ", "'",
       "g", "e", "t", "'">>]

\* DeliverablePlanner.generate_plan: the step texts
Step ==
  [\* agent/planner.py:33: "Check repository structure"
   Check |->
     <<"C", "h", "e", "c", "k", " ", "r", "e", "p", "o", "s", "i", "t", "o", "r", "y", " ", "s",
       "t", "r", "u", "c", "t", "u", "r", "e">>,
   \* agent/planner.py:34: "Verify existing files: "
   Verify |->
     <<"V", "e", "r", "i", "f", "y", " ", "e", "x", "i", "s", "t", "i", "n", "g", " ", "f", "i",
       "l", "e", "s", ":", " ">>,
   \* agent/planner.py:38: "Create missing files/directories: "
   Create |->
     <<"C", "r", "e", "a", "t", "e", " ", "m", "i", "s", "s", "i", "n", "g", " ", "f", "i", "l",
       "e", "s", "/", "d", "i", "r", "e", "c", "t", "o", "r", "i", "e", "s", ":", " ">>,
   \* agent/planner.py:41: "Generate README.md with student info and deliverables"
   Readme |->
     <<"G", "e", "n", "e", "r", "a", "t", "e", " ", "R", "E", "A", "D", "M", "E", ".", "m", "d",
       " ", "w", "i", "t", "h", " ", "s", "t", "u", "d", "e", "n", "t", " ", "i", "n", "f", "o",
       " ", "a", "n", "d", " ", "d", "e", "l", "i", "v", "e", "r", "a", "b", "l", "e", "s">>,
   \* agent/planner.py:42: "Run validation tests"
   Tests |->
     <<"R", "u", "n", " ", "v", "a", "l", "i", "d", "a", "t", "i", "o", "n", " ", "t", "e", "s",
       "t", "s">>,
   \* agent/planner.py:43: "Commit all changes to git"
   Commit |->
     <<"C", "o", "m", "m", "i", "t", " ", "a", "l", "l", " ", "c", "h", "a", "n", "g", "e", "s",
       " ", "t", "o", " ", "g", "i", "t">>,
   \* agent/planner.py:44: "Push to GitHub repository"
   Push |->
     <<"P", "u", "s", "h", " ", "t", "o", " ", "G", "i", "t", "H", "u", "b", " ", "r", "e", "p",
       "o", "s", "i", "t", "o", "r", "y">>,
   \* agent/planner.py:45: "Generate email draft for submission"
   Email |->
     <<"G", "e", "n", "e", "r", "a", "t", "e", " ", "e", "m", "a", "i", "l", " ", "d", "r", "a",
       "f", "t", " ", "f", "o", "r", " ", "s", "u", "b", "m", "i", "s", "s", "i", "o", "n">>,
   \* agent/planner.py:34: ", "
   Comma |->
     <<",", " ">>]

\* the repository path and the names of the entries under it
Name ==
  [\* os.path.abspath(repo_path), agent/agent/executor.py:30: "/repo"
   root |->
     <<"/", "r", "e", "p", "o">>,
   \* path component: "README.md"
   readme |->
     <<"R", "E", "A", "D", "M", "E", ".", "m", "d">>,
   \* path component: "docs"
   docs |->
     <<"d", "o", "c", "s">>,
   \* path component: "report.pdf"
   report |->
     <<"r", "e", "p", "o", "r", "t", ".", "p", "d", "f">>,
   \* agent/executor.py:40: ".gitkeep"
   gitkeep |->
     <<".", "g", "i", "t", "k", "e", "e", "p">>,
   \* agent/agent/executor.py:82: "tests"
   tests |->
     <<"t", "e", "s", "t", "s">>,
   \* agent/agent/executor.py:226: "interaction_logs"
   logs |->
     <<"i", "n", "t", "e", "r", "a", "c", "t", "i", "o", "n", "_", "l", "o", "g", "s">>,
   \* agent/agent/executor.py:141: "email_draft.txt"
   email |->
     <<"e", "m", "a", "i", "l", "_", "d", "r", "a", "f", "t", ".", "t", "x", "t">>]

\* READMEGenerator.generate_readme: the pieces of the template
Rd ==
  [\* agent/README_generator.py:30-32: "# AI Agent Prototype - Deliverables Pusher\n\n**Student:** "
   Head |->
     <<"#", " ", "A", "I", " ", "A", "g", "e", "n", "t", " ", "P", "r", "o", "t", "o", "t", "y",
       "p", "e", " ", "-", " ", "D", "e", "l", "i", "v", "e", "r", "a", "b", "l", "e", "s", " ",
       "P", "u", "s", "h", "e", "r", "\n", "\n", "*", "*", "S", "t", "u", "d", "e", "n", "t", ":",
       "*", "*", " ">>,
   \* agent/README_generator.py:32-33: "  \n**University:** "
   University |->
     <<" ", " ", "\n", "*", "*", "U", "n", "i", "v", "e", "r", "s", "i", "t", "y", ":", "*", "*",
       " ">>,
   \* agent/README_generator.py:33-34: "  \n**Department:** "
   Department |->
     <<" ", " ", "\n", "*", "*", "D", "e", "p", "a", "r", "t", "m", "e", "n", "t", ":", "*", "*",
       " ">>,
   \* agent/README_generator.py:34-37: "  \n\n## Repository\n"
   Repository |->
     <<" ", " ", "\n", "\n", "#", "#", " ", "R", "e", "p", "o", "s", "i", "t", "o", "r", "y", "\n">>,
   \* agent/README_generator.py:37-40: "\n\n## Deliverables included\n"
   Deliverables |->
     <<"\n", "\n", "#", "#", " ", "D", "e", "l", "i", "v", "e", "r", "a", "b", "l", "e", "s", " ",
       "i", "n", "c", "l", "u", "d", "e", "d", "\n">>,
   \* agent/README_generator.py:48: "\n## How to run\n"
   HowSupplied |->
     <<"\n", "#", "#", " ", "H", "o", "w", " ", "t", "o", " ", "r", "u", "n", "\n">>,
   \* agent/README_generator.py:66: "\n## Contact\n"
   Contact |->
     <<"\n", "#", "#", " ", "C", "o", "n", "t", "a", "c", "t", "\n">>,
   \* agent/README_generator.py:67: " U+2014 ["
   ContactOpen |->
     <<" ", "U+2014", " ", "[">>,
   \* agent/README_generator.py:67: "](mailto:"
   ContactMid |->
     <<"]", "(", "m", "a", "i", "l", "t", "o", ":">>,
   \* agent/README_generator.py:67-68: ")\n"
   ContactClose |->
     <<")", "\n">>,
   \* agent/README_generator.py:50-62: "\n## How to run (quick)\n1. Create venv and install:\n   U+0060U+0060U+0060bash\n   python -m venv venv\n   source venv/bin/activate\n   pip install -r agent/requirements.txt\n   U+0060U+0060U+0060\n\n2. Run demo:\n   U+0060U+0060U+0060bash\n   python agent/planner.py --repo_path /path/to/repo\n   U+0060U+0060U+0060\n"
   HowDefault |->
     <<"\n", "#", "#", " ", "H", "o", "w", " ", "t", "o", " ", "r", "u", "n", " ", "(", "q", "u",
       "i", "c", "k", ")", "\n", "1", ".", " ", "C", "r", "e", "a", "t", "e", " ", "v", "e", "n",
       "v", " ", "a", "n", "d", " ", "i", "n", "s", "t", "a", "l", "l", ":", "\n", " ", " ", " ",
       "U+0060", "U+0060", "U+0060", "b", "a", "s", "h", "\n", " ", " ", " ", "p", "y", "t", "h",
       "o", "n", " ", "-", "m", " ", "v", "e", "n", "v", " ", "v", "e", "n", "v", "\n", " ", " ",
       " ", "s", "o", "u", "r", "c", "e", " ", "v", "e", "n", "v", "/", "b", "i", "n", "/", "a",
       "c", "t", "i", "v", "a", "t", "e", "\n", " ", " ", " ", "p", "i", "p", " ", "i", "n", "s",
       "t", "a", "l", "l", " ", "-", "r", " ", "a", "g", "e", "n", "t", "/", "r", "e", "q", "u",
       "i", "r", "e", "m", "e", "n", "t", "s", ".", "t", "x", "t", "\n", " ", " ", " ", "U+0060",
       "U+0060", "U+0060", "\n", "\n", "2", ".", " ", "R", "u", "n", " ", "d", "e", "m", "o", ":",
       "\n", " ", " ", " ", "U+0060", "U+0060", "U+0060", "b", "a", "s", "h", "\n", " ", " ", " ",
       "p", "y", "t", "h", "o", "n", " ", "a", "g", "e", "n", "t", "/", "p", "l", "a", "n", "n",
       "e", "r", ".", "p", "y", " ", "-", "-", "r", "e", "p", "o", "_", "p", "a", "t", "h", " ",
       "/", "p", "a", "t", "h", "/", "t", "o", "/", "r", "e", "p", "o", "\n", " ", " ", " ",
       "U+0060", "U+0060", "U+0060", "\n">>,
   \* agent/README_generator.py:65: "your.email@domain"
   DefaultContact |->
     <<"y", "o", "u", "r", ".", "e", "m", "a", "i", "l", "@", "d", "o", "m", "a", "i", "n">>,
   \* agent/README_generator.py:32: "**Student:** "
   StudentField |->
     <<"*", "*", "S", "t", "u", "d", "e", "n", "t", ":", "*", "*", " ">>,
   \* agent/README_generator.py:33: "**University:** "
   UniversityField |->
     <<"*", "*", "U", "n", "i", "v", "e", "r", "s", "i", "t", "y", ":", "*", "*", " ">>,
   \* agent/README_generator.py:34: "**Department:** "
   DepartmentField |->
     <<"*", "*", "D", "e", "p", "a", "r", "t", "m", "e", "n", "t", ":", "*", "*", " ">>,
   \* agent/README_generator.py:44: "- "
   Bullet |->
     <<"-", " ">>,
   \* agent/README_generator.py:44: "\n"
   Newline |->
     <<"\n">>]

\* generate_email_draft: the pieces of the template
Ge ==
  [\* agent/README_generator.py:126: "To: "
   To |->
     <<"T", "o", ":", " ">>,
   \* agent/README_generator.py:126-127: "\nSubject: AI Agent Prototype - Deliverables submitted ("
   Subject |->
     <<"\n", "S", "u", "b", "j", "e", "c", "t", ":", " ", "A", "I", " ", "A", "g", "e", "n", "t",
       " ", "P", "r", "o", "t", "o", "t", "y", "p", "e", " ", "-", " ", "D", "e", "l", "i", "v",
       "e", "r", "a", "b", "l", "e", "s", " ", "s", "u", "b", "m", "i", "t", "t", "e", "d", " ",
       "(">>,
   \* agent/README_generator.py:127-132: ")\n\nHello,\n\nI have pushed all deliverables for the AI Agent Prototype assignment to the following GitHub repository:\n"
   Body |->
     <<")", "\n", "\n", "H", "e", "l", "l", "o", ",", "\n", "\n", "I", " ", "h", "a", "v", "e",
       " ", "p", "u", "s", "h", "e", "d", " ", "a", "l", "l", " ", "d", "e", "l", "i", "v", "e",
       "r", "a", "b", "l", "e", "s", " ", "f", "o", "r", " ", "t", "h", "e", " ", "A", "I", " ",
       "A", "g", "e", "n", "t", " ", "P", "r", "o", "t", "o", "t", "y", "p", "e", " ", "a", "s",
       "s", "i", "g", "n", "m", "e", "n", "t", " ", "t", "o", " ", "t", "h", "e", " ", "f", "o",
       "l", "l", "o", "w", "i", "n", "g", " ", "G", "i", "t", "H", "u", "b", " ", "r", "e", "p",
       "o", "s", "i", "t", "o", "r", "y", ":", "\n">>,
   \* agent/README_generator.py:132-134: "\n\nStudent: "
   Student |->
     <<"\n", "\n", "S", "t", "u", "d", "e", "n", "t", ":", " ">>,
   \* agent/README_generator.py:135: "\nUniversity: "
   University |->
     <<"\n", "U", "n", "i", "v", "e", "r", "s", "i", "t", "y", ":", " ">>,
   \* agent/README_generator.py:136: "\nDepartment: "
   Department |->
     <<"\n", "D", "e", "p", "a", "r", "t", "m", "e", "n", "t", ":", " ">>,
   \* agent/README_generator.py:136-139: "\n\nDeliverables:\n"
   Deliverables |->
     <<"\n", "\n", "D", "e", "l", "i", "v", "e", "r", "a", "b", "l", "e", "s", ":", "\n">>,
   \* agent/README_generator.py:139-144: "\n\nPlease let me know if anything else is required.\n\nRegards,\n"
   Closing |->
     <<"\n", "\n", "P", "l", "e", "a", "s", "e", " ", "l", "e", "t", " ", "m", "e", " ", "k", "n",
       "o", "w", " ", "i", "f", " ", "a", "n", "y", "t", "h", "i", "n", "g", " ", "e", "l", "s",
       "e", " ", "i", "s", " ", "r", "e", "q", "u", "i", "r", "e", "d", ".", "\n", "\n", "R", "e",
       "g", "a", "r", "d", "s", ",", "\n">>,
   \* agent/README_generator.py:144-145: "\n"
   End |->
     <<"\n">>,
   \* agent/README_generator.py:123: ", "
   Comma |->
     <<",", " ">>,
   \* agent/README_generator.py:124: "- "
   Bullet |->
     <<"-", " ">>,
   \* agent/README_generator.py:124: "\n"
   Newline |->
     <<"\n">>]

\* emailer.build_email: the pieces of the template
Be ==
  [\* agent/emailer.py:18: "AI Agent Prototype - Deliverables submitted ("
   SubjectPrefix |->
     <<"A", "I", " ", "A", "g", "e", "n", "t", " ", "P", "r", "o", "t", "o", "t", "y", "p", "e",
       " ", "-", " ", "D", "e", "l", "i", "v", "e", "r", "a", "b", "l", "e", "s", " ", "s", "u",
       "b", "m", "i", "t", "t", "e", "d", " ", "(">>,
   \* agent/emailer.py:18: ")"
   SubjectClose |->
     <<")">>,
   \* agent/emailer.py:19-22: "Hello,\n\nI have pushed all deliverables for the AI Agent Prototype assignment to the following GitHub repository:\n"
   Body |->
     <<"H", "e", "l", "l", "o", ",", "\n", "\n", "I", " ", "h", "a", "v", "e", " ", "p", "u", "s",
       "h", "e", "d", " ", "a", "l", "l", " ", "d", "e", "l", "i", "v", "e", "r", "a", "b", "l",
       "e", "s", " ", "f", "o", "r", " ", "t", "h", "e", " ", "A", "I", " ", "A", "g", "e", "n",
       "t", " ", "P", "r", "o", "t", "o", "t", "y", "p", "e", " ", "a", "s", "s", "i", "g", "n",
       "m", "e", "n", "t", " ", "t", "o", " ", "t", "h", "e", " ", "f", "o", "l", "l", "o", "w",
       "i", "n", "g", " ", "G", "i", "t", "H", "u", "b", " ", "r", "e", "p", "o", "s", "i", "t",
       "o", "r", "y", ":", "\n">>,
   \* agent/emailer.py:22-24: "\n\nStudent: "
   Student |->
     <<"\n", "\n", "S", "t", "u", "d", "e", "n", "t", ":", " ">>,
   \* agent/emailer.py:25: "\nUniversity: "
   University |->
     <<"\n", "U", "n", "i", "v", "e", "r", "s", "i", "t", "y", ":", " ">>,
   \* agent/emailer.py:26: "\nDepartment: "
   Department |->
     <<"\n", "D", "e", "p", "a", "r", "t", "m", "e", "n", "t", ":", " ">>,
   \* agent/emailer.py:26-37: "\n\nDeliverables included:\n- Source code (agent/)\n- Agent architecture document (docs/architecture.md)\n- Data science report (docs/report.pdf)\n- Interaction logs (interaction_logs/)\n- Demo / screenshots (optional)\n\nKindly confirm receipt.\n\nRegards,\n"
   Closing |->
     <<"\n", "\n", "D", "e", "l", "i", "v", "e", "r", "a", "b", "l", "e", "s", " ", "i", "n", "c",
       "l", "u", "d", "e", "d", ":", "\n", "-", " ", "S", "o", "u", "r", "c", "e", " ", "c", "o",
       "d", "e", " ", "(", "a", "g", "e", "n", "t", "/", ")", "\n", "-", " ", "A", "g", "e", "n",
       "t", " ", "a", "r", "c", "h", "i", "t", "e", "c", "t", "u", "r", "e", " ", "d", "o", "c",
       "u", "m", "e", "n", "t", " ", "(", "d", "o", "c", "s", "/", "a", "r", "c", "h", "i", "t",
       "e", "c", "t", "u", "r", "e", ".", "m", "d", ")", "\n", "-", " ", "D", "a", "t", "a", " ",
       "s", "c", "i", "e", "n", "c", "e", " ", "r", "e", "p", "o", "r", "t", " ", "(", "d", "o",
       "c", "s", "/", "r", "e", "p", "o", "r", "t", ".", "p", "d", "f", ")", "\n", "-", " ", "I",
       "n", "t", "e", "r", "a", "c", "t", "i", "o", "n", " ", "l", "o", "g", "s", " ", "(", "i",
       "n", "t", "e", "r", "a", "c", "t", "i", "o", "n", "_", "l", "o", "g", "s", "/", ")", "\n",
       "-", " ", "D", "e", "m", "o", " ", "/", " ", "s", "c", "r", "e", "e", "n", "s", "h", "o",
       "t", "s", " ", "(", "o", "p", "t", "i", "o", "n", "a", "l", ")", "\n", "\n", "K", "i", "n",
       "d", "l", "y", " ", "c", "o", "n", "f", "i", "r", "m", " ", "r", "e", "c", "e", "i", "p",
       "t", ".", "\n", "\n", "R", "e", "g", "a", "r", "d", "s", ",", "\n">>,
   \* agent/emailer.py:38-39: "\n"
   End |->
     <<"\n">>]

\* emailer.save_draft: the pieces of the written text
Sd ==
  [\* agent/emailer.py:44: "To: "
   To |->
     <<"T", "o", ":", " ">>,
   \* agent/emailer.py:45: "Subject: "
   Subject |->
     <<"S", "u", "b", "j", "e", "c", "t", ":", " ">>,
   \* agent/emailer.py:45: "\n\n"
   Blank |->
     <<"\n", "\n">>,
   \* agent/emailer.py:44: ", "
   Comma |->
     <<",", " ">>,
   \* agent/emailer.py:44: "\n"
   Newline |->
     <<"\n">>]

\* Executor.create_email_draft: the lines of the draft
Ed ==
  [\* agent/agent/executor.py:145: "Subject: "
   Subject |->
     <<"S", "u", "b", "j", "e", "c", "t", ":", " ">>,
   \* agent/agent/executor.py:140: "AI Agent Prototype - Deliverables submitted"
   SubjectPrefix |->
     <<"A", "I", " ", "A", "g", "e", "n", "t", " ", "P", "r", "o", "t", "o", "t", "y", "p", "e",
       " ", "-", " ", "D", "e", "l", "i", "v", "e", "r", "a", "b", "l", "e", "s", " ", "s", "u",
       "b", "m", "i", "t", "t", "e", "d">>,
   \* agent/agent/executor.py:145: " ("
   SubjectOpen |->
     <<" ", "(">>,
   \* agent/agent/executor.py:145: ")"
   SubjectClose |->
     <<")">>,
   \* agent/agent/executor.py:147: "Hello,"
   Hello |->
     <<"H", "e", "l", "l", "o", ",">>,
   \* agent/agent/executor.py:149: "I have pushed all deliverables for the AI Agent Prototype assignment to the following GitHub repository:"
   Pushed |->
     <<"I", " ", "h", "a", "v", "e", " ", "p", "u", "s", "h", "e", "d", " ", "a", "l", "l", " ",
       "d", "e", "l", "i", "v", "e", "r", "a", "b", "l", "e", "s", " ", "f", "o", "r", " ", "t",
       "h", "e", " ", "A", "I", " ", "A", "g", "e", "n", "t", " ", "P", "r", "o", "t", "o", "t",
       "y", "p", "e", " ", "a", "s", "s", "i", "g", "n", "m", "e", "n", "t", " ", "t", "o", " ",
       "t", "h", "e", " ", "f", "o", "l", "l", "o", "w", "i", "n", "g", " ", "G", "i", "t", "H",
       "u", "b", " ", "r", "e", "p", "o", "s", "i", "t", "o", "r", "y", ":">>,
   \* agent/agent/executor.py:152: "Student: "
   Student |->
     <<"S", "t", "u", "d", "e", "n", "t", ":", " ">>,
   \* agent/agent/executor.py:153: "University: "
   University |->
     <<"U", "n", "i", "v", "e", "r", "s", "i", "t", "y", ":", " ">>,
   \* agent/agent/executor.py:154: "Department: "
   Department |->
     <<"D", "e", "p", "a", "r", "t", "m", "e", "n", "t", ":", " ">>,
   \* agent/agent/executor.py:156: "Deliverables included:"
   Included |->
     <<"D", "e", "l", "i", "v", "e", "r", "a", "b", "l", "e", "s", " ", "i", "n", "c", "l", "u",
       "d", "e", "d", ":">>,
   \* agent/agent/executor.py:157: "- Source code"
   Item1 |->
     <<"-", " ", "S", "o", "u", "r", "c", "e", " ", "c", "o", "d", "e">>,
   \* agent/agent/executor.py:158: "- Agent architecture document"
   Item2 |->
     <<"-", " ", "A", "g", "e", "n", "t", " ", "a", "r", "c", "h", "i", "t", "e", "c", "t", "u",
       "r", "e", " ", "d", "o", "c", "u", "m", "e", "n", "t">>,
   \* agent/agent/executor.py:159: "- Data science report (fine-tuning details & evaluation)"
   Item3 |->
     <<"-", " ", "D", "a", "t", "a", " ", "s", "c", "i", "e", "n", "c", "e", " ", "r", "e", "p",
       "o", "r", "t", " ", "(", "f", "i", "n", "e", "-", "t", "u", "n", "i", "n", "g", " ", "d",
       "e", "t", "a", "i", "l", "s", " ", "&", " ", "e", "v", "a", "l", "u", "a", "t", "i", "o",
       "n", ")">>,
   \* agent/agent/executor.py:160: "- Interaction logs"
   Item4 |->
     <<"-", " ", "I", "n", "t", "e", "r", "a", "c", "t", "i", "o", "n", " ", "l", "o", "g", "s">>,
   \* agent/agent/executor.py:161: "- Optional: demo video/screenshots"
   Item5 |->
     <<"-", " ", "O", "p", "t", "i", "o", "n", "a", "l", ":", " ", "d", "e", "m", "o", " ", "v",
       "i", "d", "e", "o", "/", "s", "c", "r", "e", "e", "n", "s", "h", "o", "t", "s">>,
   \* agent/agent/executor.py:163: "Please let me know if you need any additional information."
   Please |->
     <<"P", "l", "e", "a", "s", "e", " ", "l", "e", "t", " ", "m", "e", " ", "k", "n", "o", "w",
       " ", "i", "f", " ", "y", "o", "u", " ", "n", "e", "e", "d", " ", "a", "n", "y", " ", "a",
       "d", "d", "i", "t", "i", "o", "n", "a", "l", " ", "i", "n", "f", "o", "r", "m", "a", "t",
       "i", "o", "n", ".">>,
   \* agent/agent/executor.py:165: "Regards,\n"
   Regards |->
     <<"R", "e", "g", "a", "r", "d", "s", ",", "\n">>,
   \* agent/agent/executor.py:167: "To: "
   To |->
     <<"T", "o", ":", " ">>,
   \* agent/agent/executor.py:169: "\n"
   Newline |->
     <<"\n">>,
   \* agent/agent/executor.py:167: ", "
   Comma |->
     <<",", " ">>]

\* keywords of the README patterns and of the validator
Kw ==
  [\* agent/agent/executor.py:70: "Title"
   Title |->
     <<"T", "i", "t", "l", "e">>,
   \* agent/agent/executor.py:70: "# "
   Heading |->
     <<"#", " ">>,
   \* agent/agent/executor.py:71: "Student"
   Student |->
     <<"S", "t", "u", "d", "e", "n", "t">>,
   \* agent/agent/executor.py:71: "Name"
   Name |->
     <<"N", "a", "m", "e">>,
   \* agent/agent/executor.py:72: "University"
   University |->
     <<"U", "n", "i", "v", "e", "r", "s", "i", "t", "y">>,
   \* agent/agent/executor.py:73: "Department"
   Department |->
     <<"D", "e", "p", "a", "r", "t", "m", "e", "n", "t">>,
   \* agent/agent/executor.py:74: "Deliverables"
   Deliverables |->
     <<"D", "e", "l", "i", "v", "e", "r", "a", "b", "l", "e", "s">>,
   \* agent/agent/executor.py:75: "How to run"
   HowToRun |->
     <<"H", "o", "w", " ", "t", "o", " ", "r", "u", "n">>,
   \* agent/agent/executor.py:75: "Installation"
   Installation |->
     <<"I", "n", "s", "t", "a", "l", "l", "a", "t", "i", "o", "n">>,
   \* agent/agent/executor.py:76: "Contact"
   Contact |->
     <<"C", "o", "n", "t", "a", "c", "t">>,
   \* the word that marks a skipped test run, agent/agent/executor.py:84: "skip"
   Skip |->
     <<"s", "k", "i", "p">>,
   \* the prefix of a subject line: "Subject: "
   Subject |->
     <<"S", "u", "b", "j", "e", "c", "t", ":", " ">>]

\* Executor.assert_readme_fields: the pattern texts
Pat ==
  [\* agent/agent/executor.py:70: "(?i)Title|^# "
   Title |->
     <<"(", "?", "i", ")", "T", "i", "t", "l", "e", "|", "^", "#", " ">>,
   \* agent/agent/executor.py:71: "(?i)Student|Name"
   Student |->
     <<"(", "?", "i", ")", "S", "t", "u", "d", "e", "n", "t", "|", "N", "a", "m", "e">>,
   \* agent/agent/executor.py:72: "(?i)University"
   University |->
     <<"(", "?", "i", ")", "U", "n", "i", "v", "e", "r", "s", "i", "t", "y">>,
   \* agent/agent/executor.py:73: "(?i)Department"
   Department |->
     <<"(", "?", "i", ")", "D", "e", "p", "a", "r", "t", "m", "e", "n", "t">>,
   \* agent/agent/executor.py:74: "(?i)Deliverables"
   Deliverables |->
     <<"(", "?", "i", ")", "D", "e", "l", "i", "v", "e", "r", "a", "b", "l", "e", "s">>,
   \* agent/agent/executor.py:75: "(?i)How to run|Installation"
   HowToRun |->
     <<"(", "?", "i", ")", "H", "o", "w", " ", "t", "o", " ", "r", "u", "n", "|", "I", "n", "s",
       "t", "a", "l", "l", "a", "t", "i", "o", "n">>,
   \* agent/agent/executor.py:76: "(?i)Contact"
   Contact |->
     <<"(", "?", "i", ")", "C", "o", "n", "t", "a", "c", "t">>]

\* README lines that carry one section marker each
Mk ==
  [\* README line carrying the title marker as a heading: "# Project\n"
   TitleHeading |->
     <<"#", " ", "P", "r", "o", "j", "e", "c", "t", "\n">>,
   \* README line carrying the title marker as a word: "title: Project\n"
   TitleWord |->
     <<"t", "i", "t", "l", "e", ":", " ", "P", "r", "o", "j", "e", "c", "t", "\n">>,
   \* README line carrying the student marker: "Student: A\n"
   Student |->
     <<"S", "t", "u", "d", "e", "n", "t", ":", " ", "A", "\n">>,
   \* README line carrying the student marker as a name: "NAME: A\n"
   Name |->
     <<"N", "A", "M", "E", ":", " ", "A", "\n">>,
   \* README line carrying the university marker with a long s: "UniverU+017Fity: U\n"
   UniversityLongS |->
     <<"U", "n", "i", "v", "e", "r", "U+017F", "i", "t", "y", ":", " ", "U", "\n">>,
   \* README line carrying the title marker with a dotted capital I: "TU+0130TLE\n"
   TitleDottedI |->
     <<"T", "U+0130", "T", "L", "E", "\n">>,
   \* README line carrying the university marker: "University: U\n"
   University |->
     <<"U", "n", "i", "v", "e", "r", "s", "i", "t", "y", ":", " ", "U", "\n">>,
   \* README line carrying the department marker: "department: D\n"
   Department |->
     <<"d", "e", "p", "a", "r", "t", "m", "e", "n", "t", ":", " ", "D", "\n">>,
   \* README line carrying the deliverables marker: "## Deliverables included\n"
   Deliverables |->
     <<"#", "#", " ", "D", "e", "l", "i", "v", "e", "r", "a", "b", "l", "e", "s", " ", "i", "n",
       "c", "l", "u", "d", "e", "d", "\n">>,
   \* README line carrying the how-to-run marker: "## How to run\n"
   HowToRun |->
     <<"#", "#", " ", "H", "o", "w", " ", "t", "o", " ", "r", "u", "n", "\n">>,
   \* README line carrying the how-to-run marker as installation: "## INSTALLATION\n"
   Installation |->
     <<"#", "#", " ", "I", "N", "S", "T", "A", "L", "L", "A", "T", "I", "O", "N", "\n">>,
   \* README line carrying the contact marker: "## Contact\n"
   Contact |->
     <<"#", "#", " ", "C", "o", "n", "t", "a", "c", "t", "\n">>]

\* argument values of the document operations
Txt ==
  [\* a student name: "A"
   A |->
     <<"A">>,
   \* a student name: "Ada"
   Ada |->
     <<"A", "d", "a">>,
   \* a university: "U"
   U |->
     <<"U">>,
   \* a university: "IIT"
   Uni |->
     <<"I", "I", "T">>,
   \* a department: "D"
   D |->
     <<"D">>,
   \* a repository URL: "http://r"
   Url |->
     <<"h", "t", "t", "p", ":", "/", "/", "r">>,
   \* a deliverable: "x"
   X |->
     <<"x">>,
   \* a deliverable: "y"
   Y |->
     <<"y">>,
   \* a how-to-run text: "make run"
   How |->
     <<"m", "a", "k", "e", " ", "r", "u", "n">>]

\* recipient addresses passed to the email operations
Rcpt ==
  [\* a recipient: "a@b.com"
   r1 |->
     <<"a", "@", "b", ".", "c", "o", "m">>,
   \* a recipient: "c@d.org"
   r2 |->
     <<"c", "@", "d", ".", "o", "r", "g">>]

\* captured output of the test runner
Out ==
  [\* stdout of the test runner, agent/agent/executor.py:95: "1 passed"
   Passed |->
     <<"1", " ", "p", "a", "s", "s", "e", "d">>,
   \* stdout of the test runner, agent/agent/executor.py:95: "1 failed"
   Failed |->
     <<"1", " ", "f", "a", "i", "l", "e", "d">>]

\* agent/ui.py: the texts of the fallback make_readme and create_email_draft, and deliverables_list
Ui ==
  [\* agent/ui.py:20-22: "# AI Agent Prototype - Deliverables Pusher\n\n**Student:** "
   ReadmeHead |->
     <<"#", " ", "A", "I", " ", "A", "g", "e", "n", "t", " ", "P", "r", "o", "t", "o", "t", "y",
       "p", "e", " ", "-", " ", "D", "e", "l", "i", "v", "e", "r", "a", "b", "l", "e", "s", " ",
       "P", "u", "s", "h", "e", "r", "\n", "\n", "*", "*", "S", "t", "u", "d", "e", "n", "t", ":",
       "*", "*", " ">>,
   \* agent/ui.py:22-23: "  \n**University:** "
   ReadmeUniversity |->
     <<" ", " ", "\n", "*", "*", "U", "n", "i", "v", "e", "r", "s", "i", "t", "y", ":", "*", "*",
       " ">>,
   \* agent/ui.py:23-24: "  \n**Department:** "
   ReadmeDepartment |->
     <<" ", " ", "\n", "*", "*", "D", "e", "p", "a", "r", "t", "m", "e", "n", "t", ":", "*", "*",
       " ">>,
   \* agent/ui.py:24-26: "  \n\n## Deliverables included\n"
   ReadmeDeliverables |->
     <<" ", " ", "\n", "\n", "#", "#", " ", "D", "e", "l", "i", "v", "e", "r", "a", "b", "l", "e",
       "s", " ", "i", "n", "c", "l", "u", "d", "e", "d", "\n">>,
   \* agent/ui.py:27: "- "
   Bullet |->
     <<"-", " ">>,
   \* chr(10), agent/ui.py:27: "\n"
   Newline |->
     <<"\n">>,
   \* agent/ui.py:27-29: "\n\n## Repository\n"
   ReadmeRepository |->
     <<"\n", "\n", "#", "#", " ", "R", "e", "p", "o", "s", "i", "t", "o", "r", "y", "\n">>,
   \* agent/ui.py:30-45: "\n\n## How to run\n1. Create venv and install:\n   U+0060U+0060U+0060bash\n   python -m venv venv\n   source venv/bin/activate\n   pip install -r agent/requirements.txt\n   U+0060U+0060U+0060\n\n2. Run demo:\n   U+0060U+0060U+0060bash\n   python agent/planner.py --repo_path /path/to/repo\n   U+0060U+0060U+0060\n\n## Contact\n"
   ReadmeHow |->
     <<"\n", "\n", "#", "#", " ", "H", "o", "w", " ", "t", "o", " ", "r", "u", "n", "\n", "1", ".",
       " ", "C", "r", "e", "a", "t", "e", " ", "v", "e", "n", "v", " ", "a", "n", "d", " ", "i",
       "n", "s", "t", "a", "l", "l", ":", "\n", " ", " ", " ", "U+0060", "U+0060", "U+0060", "b",
       "a", "s", "h", "\n", " ", " ", " ", "p", "y", "t", "h", "o", "n", " ", "-", "m", " ", "v",
       "e", "n", "v", " ", "v", "e", "n", "v", "\n", " ", " ", " ", "s", "o", "u", "r", "c", "e",
       " ", "v", "e", "n", "v", "/", "b", "i", "n", "/", "a", "c", "t", "i", "v", "a", "t", "e",
       "\n", " ", " ", " ", "p", "i", "p", " ", "i", "n", "s", "t", "a", "l", "l", " ", "-", "r",
       " ", "a", "g", "e", "n", "t", "/", "r", "e", "q", "u", "i", "r", "e", "m", "e", "n", "t",
       "s", ".", "t", "x", "t", "\n", " ", " ", " ", "U+0060", "U+0060", "U+0060", "\n", "\n", "2",
       ".", " ", "R", "u", "n", " ", "d", "e", "m", "o", ":", "\n", " ", " ", " ", "U+0060",
       "U+0060", "U+0060", "b", "a", "s", "h", "\n", " ", " ", " ", "p", "y", "t", "h", "o", "n",
       " ", "a", "g", "e", "n", "t", "/", "p", "l", "a", "n", "n", "e", "r", ".", "p", "y", " ",
       "-", "-", "r", "e", "p", "o", "_", "p", "a", "t", "h", " ", "/", "p", "a", "t", "h", "/",
       "t", "o", "/", "r", "e", "p", "o", "\n", " ", " ", " ", "U+0060", "U+0060", "U+0060", "\n",
       "\n", "#", "#", " ", "C", "o", "n", "t", "a", "c", "t", "\n">>,
   \* agent/ui.py:46: "\n"
   ReadmeEnd |->
     <<"\n">>,
   \* agent/ui.py:60: "Subject: AI Agent Prototype - Deliverables submitted ("
   EmailSubject |->
     <<"S", "u", "b", "j", "e", "c", "t", ":", " ", "A", "I", " ", "A", "g", "e", "n", "t", " ",
       "P", "r", "o", "t", "o", "t", "y", "p", "e", " ", "-", " ", "D", "e", "l", "i", "v", "e",
       "r", "a", "b", "l", "e", "s", " ", "s", "u", "b", "m", "i", "t", "t", "e", "d", " ", "(">>,
   \* agent/ui.py:60-64: ")\n\nHello,\n\nI have pushed all deliverables for the AI Agent Prototype assignment to the following GitHub repository:\n"
   EmailHello |->
     <<")", "\n", "\n", "H", "e", "l", "l", "o", ",", "\n", "\n", "I", " ", "h", "a", "v", "e", " ",
       "p", "u", "s", "h", "e", "d", " ", "a", "l", "l", " ", "d", "e", "l", "i", "v", "e", "r",
       "a", "b", "l", "e", "s", " ", "f", "o", "r", " ", "t", "h", "e", " ", "A", "I", " ", "A",
       "g", "e", "n", "t", " ", "P", "r", "o", "t", "o", "t", "y", "p", "e", " ", "a", "s", "s",
       "i", "g", "n", "m", "e", "n", "t", " ", "t", "o", " ", "t", "h", "e", " ", "f", "o", "l",
       "l", "o", "w", "i", "n", "g", " ", "G", "i", "t", "H", "u", "b", " ", "r", "e", "p", "o",
       "s", "i", "t", "o", "r", "y", ":", "\n">>,
   \* agent/ui.py:65-67: "\n\nStudent: "
   EmailStudent |->
     <<"\n", "\n", "S", "t", "u", "d", "e", "n", "t", ":", " ">>,
   \* agent/ui.py:67-68: "\nUniversity: "
   EmailUniversity |->
     <<"\n", "U", "n", "i", "v", "e", "r", "s", "i", "t", "y", ":", " ">>,
   \* agent/ui.py:68-69: "\nDepartment: "
   EmailDepartment |->
     <<"\n", "D", "e", "p", "a", "r", "t", "m", "e", "n", "t", ":", " ">>,
   \* agent/ui.py:69-80: "\n\nDeliverables:\n- Source code\n- Agent architecture document\n- Data science report (fine-tuning setup and evaluation)\n- Interaction logs\n- Demo video / screenshots (optional)\n\nPlease let me know if anything else is required.\n\nRegards,\n"
   EmailClosing |->
     <<"\n", "\n", "D", "e", "l", "i", "v", "e", "r", "a", "b", "l", "e", "s", ":", "\n", "-", " ",
       "S", "o", "u", "r", "c", "e", " ", "c", "o", "d", "e", "\n", "-", " ", "A", "g", "e", "n",
       "t", " ", "a", "r", "c", "h", "i", "t", "e", "c", "t", "u", "r", "e", " ", "d", "o", "c",
       "u", "m", "e", "n", "t", "\n", "-", " ", "D", "a", "t", "a", " ", "s", "c", "i", "e", "n",
       "c", "e", " ", "r", "e", "p", "o", "r", "t", " ", "(", "f", "i", "n", "e", "-", "t", "u",
       "n", "i", "n", "g", " ", "s", "e", "t", "u", "p", " ", "a", "n", "d", " ", "e", "v", "a",
       "l", "u", "a", "t", "i", "o", "n", ")", "\n", "-", " ", "I", "n", "t", "e", "r", "a", "c",
       "t", "i", "o", "n", " ", "l", "o", "g", "s", "\n", "-", " ", "D", "e", "m", "o", " ", "v",
       "i", "d", "e", "o", " ", "/", " ", "s", "c", "r", "e", "e", "n", "s", "h", "o", "t", "s",
       " ", "(", "o", "p", "t", "i", "o", "n", "a", "l", ")", "\n", "\n", "P", "l", "e", "a", "s",
       "e", " ", "l", "e", "t", " ", "m", "e", " ", "k", "n", "o", "w", " ", "i", "f", " ", "a",
       "n", "y", "t", "h", "i", "n", "g", " ", "e", "l", "s", "e", " ", "i", "s", " ", "r", "e",
       "q", "u", "i", "r", "e", "d", ".", "\n", "\n", "R", "e", "g", "a", "r", "d", "s", ",", "\n">>,
   \* agent/ui.py:81: "\n"
   EmailEnd |->
     <<"\n">>,
   \* deliverables_list, agent/ui.py:171-177: "Source code (/agent)", "AI agent architecture document (docs/architecture.md)", "Data science report (docs/report.pdf)", "Interaction logs (interaction_logs/)", "Unit tests (tests/)"
   deliverables_list |->
     <<<<"S", "o", "u", "r", "c", "e", " ", "c", "o", "d", "e", " ", "(", "/", "a", "g", "e", "n",
         "t", ")">>,
      <<"A", "I", " ", "a", "g", "e", "n", "t", " ", "a", "r", "c", "h", "i", "t", "e", "c", "t",
         "u", "r", "e", " ", "d", "o", "c", "u", "m", "e", "n", "t", " ", "(", "d", "o", "c", "s",
         "/", "a", "r", "c", "h", "i", "t", "e", "c", "t", "u", "r", "e", ".", "m", "d", ")">>,
      <<"D", "a", "t", "a", " ", "s", "c", "i", "e", "n", "c", "e", " ", "r", "e", "p", "o", "r",
         "t", " ", "(", "d", "o", "c", "s", "/", "r", "e", "p", "o", "r", "t", ".", "p", "d", "f", ")">>,
      <<"I", "n", "t", "e", "r", "a", "c", "t", "i", "o", "n", " ", "l", "o", "g", "s", " ", "(",
         "i", "n", "t", "e", "r", "a", "c", "t", "i", "o", "n", "_", "l", "o", "g", "s", "/", ")">>,
      <<"U", "n", "i", "t", " ", "t", "e", "s", "t", "s", " ", "(", "t", "e", "s", "t", "s", "/", ")">>>>,
   \* agent/ui.py:234: "U+2705 README saved to "
   ReadmeSaved |->
     <<"U+2705", " ", "R", "E", "A", "D", "M", "E", " ", "s", "a", "v", "e", "d", " ", "t", "o", " ">>,
   \* agent/ui.py:236: "U+274C Error saving README: "
   ReadmeError |->
     <<"U+274C", " ", "E", "r", "r", "o", "r", " ", "s", "a", "v", "i", "n", "g", " ", "R", "E",
       "A", "D", "M", "E", ":", " ">>,
   \* agent/ui.py:249: "U+2705 Successfully pushed to GitHub!"
   Pushed |->
     <<"U+2705", " ", "S", "u", "c", "c", "e", "s", "s", "f", "u", "l", "l", "y", " ", "p", "u",
       "s", "h", "e", "d", " ", "t", "o", " ", "G", "i", "t", "H", "u", "b", "!">>,
   \* agent/ui.py:251: "U+26A0U+FE0F Push completed with warnings. Check git status."
   PushWarning |->
     <<"U+26A0", "U+FE0F", " ", "P", "u", "s", "h", " ", "c", "o", "m", "p", "l", "e", "t", "e",
       "d", " ", "w", "i", "t", "h", " ", "w", "a", "r", "n", "i", "n", "g", "s", ".", " ", "C",
       "h", "e", "c", "k", " ", "g", "i", "t", " ", "s", "t", "a", "t", "u", "s", ".">>,
   \* agent/ui.py:253: "U+274C Error pushing to GitHub: "
   PushError |->
     <<"U+274C", " ", "E", "r", "r", "o", "r", " ", "p", "u", "s", "h", "i", "n", "g", " ", "t",
       "o", " ", "G", "i", "t", "H", "u", "b", ":", " ">>,
   \* agent/ui.py:261: "U+2705 Email draft saved to "
   DraftSaved |->
     <<"U+2705", " ", "E", "m", "a", "i", "l", " ", "d", "r", "a", "f", "t", " ", "s", "a", "v",
       "e", "d", " ", "t", "o", " ">>,
   \* agent/ui.py:263: "U+274C Error saving email draft: "
   DraftError |->
     <<"U+274C", " ", "E", "r", "r", "o", "r", " ", "s", "a", "v", "i", "n", "g", " ", "e", "m",
       "a", "i", "l", " ", "d", "r", "a", "f", "t", ":", " ">>]
----------------------------------------------------------------------------
(* Paths and the repository tree *)

\* the text of a path component
NameText(c) ==
  CASE c = "README.md" -> Name.readme
    [] c = "docs" -> Name.docs
    [] c = "report.pdf" -> Name.report
    [] c = ".gitkeep" -> Name.gitkeep
    [] c = "tests" -> Name.tests
    [] c = "interaction_logs" -> Name.logs
    [] c = "email_draft.txt" -> Name.email

\* a relative path as the caller wrote it: components joined by "/", a
\* trailing "/" when the path is marked as a directory
PathText(p) ==
  JoinWith(<<"/">>, [k \in 1..Len(p.comps) |-> NameText(p.comps[k])])
    \o (IF p.slash THEN <<"/">> ELSE <<>>)

P_readme == [comps |-> <<"README.md">>, slash |-> FALSE]
P_docs == [comps |-> <<"docs">>, slash |-> TRUE]
P_report == [comps |-> <<"docs", "report.pdf">>, slash |-> FALSE]

\* the required paths the operations are called with
Paths == {P_readme, P_docs, P_report}

\* every path list of length at most MaxFiles, repetitions included
PathLists == UNION {[1..n -> Paths] : n \in 0..MaxFiles}

\* os.path.join(repo_path, relative_path), as the text the operating system
\* is handed and names in its errors
FullPath(p) ==
  Name.root \o (IF p.comps = <<>> THEN <<>> ELSE <<"/">>) \o PathText(p)

\* str(e) of an OSError that carries a file name
OSErrorText(strerror, p) == strerror \o Err.PathOpen \o FullPath(p) \o Err.PathClose

\* the nodes of the tree that the model tracks: the repository directory
\* itself (the empty component sequence) and the entries under it
Nodes ==
  {<<>>, <<"README.md">>, <<"docs">>, <<"docs", "report.pdf">>, <<"docs", ".gitkeep">>,
   <<"tests">>, <<"interaction_logs">>, <<"email_draft.txt">>}

Root == <<>>

NoEntry == [kind |-> "none", data |-> <<>>]
DirEntry == [kind |-> "dir", data |-> <<>>]
FileEntry(text) == [kind |-> "file", data |-> text]

\* os.path.dirname of a path without trailing separator
Dirname(comps) == SubSeq(comps, 1, Len(comps) - 1)

\* a path without trailing separator
PlainPath(comps) == [comps |-> comps, slash |-> FALSE]

\* os.path.exists(os.path.join(repo_path, p)): the stat of the joined path
\* succeeds; a path with a trailing separator resolves only to a directory,
\* and every ancestor, the repository directory included, has to be a
\* directory
Exists(f, p) ==
  /\ f[p.comps].kind # "none"
  /\ \A k \in 0..(Len(p.comps) - 1) : f[SubSeq(p.comps, 1, k)].kind = "dir"
  /\ p.slash => f[p.comps].kind = "dir"

RECURSIVE MakedirsFrom(_, _, _, _)
\* os.makedirs(path, exist_ok=True), from the k-th ancestor down (0: the
\* repository directory): directories are created top-down, an existing
\* directory is accepted, a file at the path itself raises FileExistsError
\* and a file above it NotADirectoryError for the entry under that file;
\* fault: the operating system refuses the creation.  The error names the
\* path handed to mkdir: the path as given for the last component, the path
\* without trailing separator for an ancestor.
MakedirsFrom(f, p, k, fault) ==
  IF k > Len(p.comps) THEN [fs |-> f, ok |-> TRUE, err |-> <<>>]
  ELSE LET node == SubSeq(p.comps, 1, k)
           made(j) == IF j = Len(p.comps) THEN p ELSE PlainPath(SubSeq(p.comps, 1, j))
       IN  CASE f[node].kind = "dir" -> MakedirsFrom(f, p, k + 1, fault)
             [] f[node].kind = "file" ->
                  [fs |-> f, ok |-> FALSE,
                   err |-> IF k = Len(p.comps)
                             THEN OSErrorText(Err.FileExists, made(k))
                             ELSE OSErrorText(Err.NotADirectory, made(k + 1))]
             [] f[node].kind = "none" ->
                  IF fault
                    THEN [fs |-> f, ok |-> FALSE, err |-> OSErrorText(Err.Permission, made(k))]
                    ELSE MakedirsFrom([f EXCEPT ![node] = DirEntry], p, k + 1, fault)

\* os.makedirs(os.path.join(repo_path, p), exist_ok=True)
makedirs(f, p, fault) == MakedirsFrom(f, p, 0, fault)

\* open(path, "w") followed by f.write(text): truncates and writes; raises
\* IsADirectoryError on a directory, FileNotFoundError when the directory of
\* the path or one above it is missing, NotADirectoryError when one of them
\* is a file, and on a refusal of the operating system
WriteFile(f, comps, text, fault) ==
  LET p == PlainPath(comps)
      above == {k \in 0..(Len(comps) - 1) : f[SubSeq(comps, 1, k)].kind # "dir"}
      first == CHOOSE k \in above : \A j \in above : k <= j
  IN  IF above # {}
        THEN [fs |-> f, ok |-> FALSE,
              err |-> IF f[SubSeq(comps, 1, first)].kind = "file"
                        THEN OSErrorText(Err.NotADirectory, p)
                        ELSE OSErrorText(Err.NoSuchFile, p)]
      ELSE IF f[comps].kind = "dir"
        THEN [fs |-> f, ok |-> FALSE, err |-> OSErrorText(Err.IsADirectory, p)]
      ELSE IF fault THEN [fs |-> f, ok |-> FALSE, err |-> OSErrorText(Err.Permission, p)]
      ELSE [fs |-> [f EXCEPT ![comps] = FileEntry(text)], ok |-> TRUE, err |-> <<>>]
----------------------------------------------------------------------------
(* Executor: results and filesystem operations (agent/agent/executor.py) *)

NoDetails == [kind |-> "none", paths |-> <<>>, texts |-> <<>>]
PathDetails(k, ps) == [kind |-> k, paths |-> ps, texts |-> <<>>]
TextDetails(k, ts) == [kind |-> k, paths |-> <<>>, texts |-> ts]

\* the dataclass ExecutionResult(success, message, details=None)
ExecutionResult(s, m, d) == [success |-> s, message |-> m, details |-> d]

\* ensure_path without the test for the trailing separator: every path is
\* created as an empty file
ensure_path_asFile(f, p, fault) ==
  LET parents == makedirs(f, PlainPath(Dirname(p.comps)), fault)
  IN  IF ~parents.ok THEN parents
      ELSE IF ~Exists(parents.fs, PlainPath(p.comps))
        THEN WriteFile(parents.fs, p.comps, <<>>, fault)
        ELSE [fs |-> parents.fs, ok |-> TRUE, err |-> <<>>]

\* Executor.ensure_path: a directory-marked path is created as a directory;
\* otherwise the parents are created and the file is written empty only if
\* nothing exists at the path.  ok = FALSE stands for the raised exception.
ensure_path(f, p, fault) ==
  IF p.slash
    THEN makedirs(f, p, fault)
    ELSE LET parents == makedirs(f, PlainPath(Dirname(p.comps)), fault)
         IN  IF ~parents.ok THEN parents
             ELSE IF ~Exists(parents.fs, p)
               THEN WriteFile(parents.fs, p.comps, <<>>, fault)
               ELSE [fs |-> parents.fs, ok |-> TRUE, err |-> <<>>]

RECURSIVE PlaceholdersFrom(_, _, _, _, _)
\* the loop of Executor.create_placeholders from the k-th path on; failAt is
\* the position at which the operating system refuses a creation (0: never)
PlaceholdersFrom(f, files, k, created, failAt) ==
  IF k > Len(files)
    THEN [fs |-> f,
          res |-> ExecutionResult(TRUE, Msg.PlaceholdersEnsured, PathDetails("created", created))]
    ELSE LET r == ensure_path(f, files[k], k = failAt)
         IN  IF r.ok
               THEN PlaceholdersFrom(r.fs, files, k + 1, Append(created, files[k]), failAt)
               ELSE [fs |-> r.fs,
                     res |-> ExecutionResult(FALSE,
                               Msg.FailedCreating \o PathText(files[k]) \o Msg.Colon \o r.err,
                               NoDetails)]

\* create_placeholders undoing what it created when an item fails
create_placeholders_rollback(f, files, failAt) ==
  LET r == PlaceholdersFrom(f, files, 1, <<>>, failAt)
  IN  IF r.res.success THEN r ELSE [fs |-> f, res |-> r.res]

\* Executor.create_placeholders
create_placeholders(f, files, failAt) == PlaceholdersFrom(f, files, 1, <<>>, failAt)

RECURSIVE ValidateRequiredFrom(_, _, _, _)
\* the loop of Executor.validate_required: the trailing separators are
\* stripped before the existence test (f.rstrip("/") is the plain path), the
\* path is reported as written
ValidateRequiredFrom(f, required_files, k, missing) ==
  IF k > Len(required_files) THEN missing
  ELSE IF ~Exists(f, PlainPath(required_files[k].comps))
    THEN ValidateRequiredFrom(f, required_files, k + 1, Append(missing, required_files[k]))
    ELSE ValidateRequiredFrom(f, required_files, k + 1, missing)

\* Executor.validate_required
validate_required(f, required_files) ==
  LET missing == ValidateRequiredFrom(f, required_files, 1, <<>>)
  IN  ExecutionResult(Len(missing) = 0, Msg.ValidationComplete, PathDetails("missing", missing))

----------------------------------------------------------------------------
(* Module-level helpers (agent/executor.py) *)

RECURSIVE ValidateDeliverablesFrom(_, _, _, _)
\* the loop of validate_deliverables
ValidateDeliverablesFrom(f, required_files, k, missing) ==
  IF k > Len(required_files) THEN missing
  ELSE IF ~Exists(f, required_files[k])
    THEN ValidateDeliverablesFrom(f, required_files, k + 1, Append(missing, required_files[k]))
    ELSE ValidateDeliverablesFrom(f, required_files, k + 1, missing)

\* validate_deliverables(base_path, required_files)
validate_deliverables(f, required_files) == ValidateDeliverablesFrom(f, required_files, 1, <<>>)

\* one iteration of create_placeholder_files: a directory-marked path gets
\* the directory and a ".gitkeep" inside it, any other path gets its parents
\* and is opened for writing and filled with the placeholder line
PlaceholderFile(f, p, fault) ==
  IF p.slash
    THEN LET d == makedirs(f, p, fault)
         IN  IF ~d.ok THEN d
             ELSE WriteFile(d.fs, Append(p.comps, ".gitkeep"), <<>>, fault)
    ELSE LET parents == makedirs(f, PlainPath(Dirname(p.comps)), fault)
         IN  IF ~parents.ok THEN parents
             ELSE WriteFile(parents.fs, p.comps,
                            PlaceholderPrefix \o PathText(p) \o <<"\n">>, fault)

RECURSIVE PlaceholderFilesFrom(_, _, _, _)
\* the loop of create_placeholder_files; nothing is caught, so the first
\* exception ends the call (ok = FALSE)
PlaceholderFilesFrom(f, files, k, failAt) ==
  IF k > Len(files) THEN [fs |-> f, ok |-> TRUE, err |-> <<>>]
  ELSE LET r == PlaceholderFile(f, files[k], k = failAt)
       IN  IF r.ok THEN PlaceholderFilesFrom(r.fs, files, k + 1, failAt) ELSE r

create_placeholder_files(f, missing_files, failAt) ==
  PlaceholderFilesFrom(f, missing_files, 1, failAt)

----------------------------------------------------------------------------
(* Planner (agent/planner.py) *)

RECURSIVE AnalyzeFrom(_, _, _, _, _)
\* the loop of DeliverablePlanner.analyze_deliverables
AnalyzeFrom(f, required_files, k, existing, missing) ==
  IF k > Len(required_files) THEN [existing |-> existing, missing |-> missing]
  ELSE IF Exists(f, required_files[k])
    THEN AnalyzeFrom(f, required_files, k + 1, Append(existing, required_files[k]), missing)
    ELSE AnalyzeFrom(f, required_files, k + 1, existing, Append(missing, required_files[k]))

\* the analysis with the two branches of the test exchanged
analyze_deliverables_swapped(f, required_files) ==
  LET r == AnalyzeFrom(f, required_files, 1, <<>>, <<>>)
  IN  [existing |-> r.missing, missing |-> r.existing]

\* DeliverablePlanner.analyze_deliverables
analyze_deliverables(f, required_files) == AnalyzeFrom(f, required_files, 1, <<>>, <<>>)

\* ', '.join(paths)
JoinPaths(ps) == JoinWith(Step.Comma, [k \in 1..Len(ps) |-> PathText(ps[k])])

FixedSteps == <<Step.Readme, Step.Tests, Step.Commit, Step.Push, Step.Email>>

\* a plan that is extended in place instead of being assigned afresh
generate_plan_appending(f, required_files, old) ==
  LET status == analyze_deliverables(f, required_files)
  IN  old \o <<Step.Check, Step.Verify \o JoinPaths(status.existing)>>
        \o (IF status.missing # <<>>
              THEN <<Step.Create \o JoinPaths(status.missing)>> ELSE <<>>)
        \o FixedSteps

\* DeliverablePlanner.generate_plan: the new value of self.plan, which is
\* assigned afresh (the previous plan, old, is dropped) and then extended
generate_plan(f, required_files, old) ==
  LET status == analyze_deliverables(f, required_files)
      fresh == <<Step.Check, Step.Verify \o JoinPaths(status.existing)>>
      withCreate == IF status.missing # <<>>
                      THEN Append(fresh, Step.Create \o JoinPaths(status.missing))
                      ELSE fresh
  IN  withCreate \o FixedSteps

----------------------------------------------------------------------------
(* Executor: README validation, tests, version control, email draft *)

\* required_patterns of assert_readme_fields, in list order
required_patterns ==
  <<Pat.Title, Pat.Student, Pat.University, Pat.Department, Pat.Deliverables, Pat.HowToRun,
    Pat.Contact>>

\* the patterns without their second alternatives
PatternMatches_firstAlternative(n, content) ==
  CASE n = 1 -> ContainsIgnoreCase(content, Kw.Title)
    [] n = 2 -> ContainsIgnoreCase(content, Kw.Student)
    [] n = 3 -> ContainsIgnoreCase(content, Kw.University)
    [] n = 4 -> ContainsIgnoreCase(content, Kw.Department)
    [] n = 5 -> ContainsIgnoreCase(content, Kw.Deliverables)
    [] n = 6 -> ContainsIgnoreCase(content, Kw.HowToRun)
    [] n = 7 -> ContainsIgnoreCase(content, Kw.Contact)

\* re.search(required_patterns[n], content): every pattern carries (?i), so
\* its literals are searched ignoring case; "^# " matches only at the start
\* of the text (no MULTILINE flag)
PatternMatches(n, content) ==
  CASE n = 1 -> ContainsIgnoreCase(content, Kw.Title) \/ StartsWith(content, Kw.Heading)
    [] n = 2 -> ContainsIgnoreCase(content, Kw.Student) \/ ContainsIgnoreCase(content, Kw.Name)
    [] n = 3 -> ContainsIgnoreCase(content, Kw.University)
    [] n = 4 -> ContainsIgnoreCase(content, Kw.Department)
    [] n = 5 -> ContainsIgnoreCase(content, Kw.Deliverables)
    [] n = 6 -> ContainsIgnoreCase(content, Kw.HowToRun)
                  \/ ContainsIgnoreCase(content, Kw.Installation)
    [] n = 7 -> ContainsIgnoreCase(content, Kw.Contact)

RECURSIVE MissingPatternsFrom(_, _)
\* [p for p in required_patterns if not re.search(p, content)]
MissingPatternsFrom(n, content) ==
  IF n > Len(required_patterns) THEN <<>>
  ELSE (IF PatternMatches(n, content) THEN <<>> ELSE <<required_patterns[n]>>)
         \o MissingPatternsFrom(n + 1, content)

ReadmeNode == <<"README.md">>

\* Executor.assert_readme_fields, for a README.md that is a file or absent
assert_readme_fields(f) ==
  IF f[ReadmeNode].kind = "none"
    THEN ExecutionResult(FALSE, Msg.ReadmeNotFound, NoDetails)
    ELSE LET missing == MissingPatternsFrom(1, f[ReadmeNode].data)
         IN  ExecutionResult(Len(missing) = 0, Msg.ReadmeFieldsCheck,
                             TextDetails("missing_patterns", missing))

\* what the external test runner does when it is launched
RunnerOutcomes == {"exit0", "exit1", "notfound", "timeout"}

\* run_tests without the test for the directory: the runner is always launched
run_tests_always(f, outcome) ==
  [res |->
     CASE outcome = "exit0" ->
            ExecutionResult(TRUE, Msg.TestsExecuted, TextDetails("output", <<Out.Passed>>))
       [] outcome = "exit1" ->
            ExecutionResult(FALSE, Msg.TestsExecuted, TextDetails("output", <<Out.Failed>>))
       [] outcome = "notfound" ->
            ExecutionResult(FALSE, Msg.TestRunFailed \o Err.NoRunner, NoDetails)
       [] outcome = "timeout" ->
            ExecutionResult(FALSE, Msg.TestRunFailed \o Err.Timeout, NoDetails),
   launched |-> TRUE]

\* Executor.run_tests; outcome is the behaviour of the runner if launched
run_tests(f, outcome) ==
  IF ~Exists(f, PlainPath(<<"tests">>))
    THEN [res |-> ExecutionResult(TRUE, Msg.NoTests, NoDetails), launched |-> FALSE]
    ELSE [res |->
            CASE outcome = "exit0" ->
                   ExecutionResult(TRUE, Msg.TestsExecuted, TextDetails("output", <<Out.Passed>>))
              [] outcome = "exit1" ->
                   ExecutionResult(FALSE, Msg.TestsExecuted, TextDetails("output", <<Out.Failed>>))
              [] outcome = "notfound" ->
                   ExecutionResult(FALSE, Msg.TestRunFailed \o Err.NoRunner, NoDetails)
              [] outcome = "timeout" ->
                   ExecutionResult(FALSE, Msg.TestRunFailed \o Err.Timeout, NoDetails),
          launched |-> TRUE]

\* what the version-control tool does when a commit is asked for: both of
\* its steps work ("ok"), the command cannot be started ("nogit"), the
\* staging step fails ("add128": a locked index), or the staging works and
\* the commit step fails ("commit1": a hook refuses; "commit128": no author
\* identity is configured)
CommitOutcomes == {"ok", "nogit", "add128", "commit1", "commit128"}

\* what the version-control tool sees of the repository: the regular files
\* of the tree with their content and the result logs; a directory that
\* holds no file is nothing to it
WorkTree(f, lg) ==
  [tree |-> [n \in Nodes |-> IF f[n].kind = "file" THEN f[n] ELSE NoEntry], logs |-> lg]

\* Executor.git_commit; g.lib: the library binding was importable; g.index:
\* the files as staged, g.head: the files as committed; lg: the result logs
\* under the repository; out: what the tool does. "git add -A" makes the
\* index the files of the working tree, a file that is gone included; "git
\* commit" records the index and exits with status 1 when the index holds
\* what HEAD holds
git_commit(f, lg, g, out) ==
  LET added == [g EXCEPT !.index = WorkTree(f, lg)]
      committed == [added EXCEPT !.head = added.index, !.commits = @ + 1]
      success(h) == [git |-> h, res |-> ExecutionResult(TRUE, Msg.GitCommitComplete, NoDetails)]
      Failure(h, text) == [git |-> h, res |-> ExecutionResult(FALSE, text, NoDetails)]
  IN  IF ~g.lib
        THEN \* git add -A; git commit -m message, both with check=True; an
             \* exception other than CalledProcessError reaches the last handler
             IF f[Root].kind # "dir"
               THEN Failure(g, Msg.GitPythonCommitFailed \o OSErrorText(Err.NoSuchFile, PlainPath(Root)))
             ELSE IF out = "nogit"
               THEN Failure(g, Msg.GitPythonCommitFailed \o Err.NoGit)
             ELSE IF ~g.isRepo \/ out = "add128"
               THEN Failure(g, Msg.GitCliCommitFailed \o Err.AddExit128)
             ELSE IF out = "commit128"
               THEN Failure(added, Msg.GitCliCommitFailed \o Err.CommitExit128)
             ELSE IF out = "commit1" \/ added.index = added.head
               THEN \* git commit exits with status 1 when there is nothing to commit
                    Failure(added, Msg.GitCliCommitFailed \o Err.CommitExit1)
             ELSE success(committed)
        ELSE \* Repo(path); repo.git.add(all=True); commit if repo.is_dirty(...);
             \* NoSuchPathError and InvalidGitRepositoryError carry the path
             IF f[Root].kind # "dir" \/ ~g.isRepo
               THEN Failure(g, Msg.GitPythonCommitFailed \o Name.root)
             ELSE IF out = "nogit"
               THEN Failure(g, Msg.GitPythonCommitFailed \o Err.GitNotFoundAdd)
             ELSE IF out = "add128"
               THEN Failure(g, Msg.GitPythonCommitFailed \o Err.GitAddFailed)
             ELSE IF added.index = added.head
               THEN success(added)
             ELSE IF out = "commit1"
               THEN Failure(added, Msg.GitPythonCommitFailed \o Err.HookFailed)
             ELSE \* repo.index.commit falls back on the login name for an
                  \* author the configuration does not name
                  success(committed)

\* what a push does once the repository is found: the branch is pushed, the
\* command cannot be started ("nogit"), the repository has no branch of
\* that name ("nobranch": exit status 1, found before the remote is looked
\* for), the command fails as a whole ("failed": the remote is not
\* reached), or the remote rejects the branch ("rejected": a remote that is
\* ahead)
PushOutcomes == {"pushed", "nogit", "nobranch", "failed", "rejected"}

\* Executor.git_push; the value origin.push(branch) returns is not looked
\* at, and the library binding raises for a push that fails as a whole but
\* reports a rejected branch in the value it returns
git_push(f, g, push) ==
  LET success(h) == [git |-> h, res |-> ExecutionResult(TRUE, Msg.GitPushComplete, NoDetails)]
      pushed == [g EXCEPT !.pushes = @ + 1]
      Failure(h, text) == [git |-> h, res |-> ExecutionResult(FALSE, text, NoDetails)]
  IN  IF ~g.lib
        THEN \* git push origin branch, with check=True
             IF f[Root].kind # "dir"
               THEN Failure(g, Msg.GitPythonPushFailed \o OSErrorText(Err.NoSuchFile, PlainPath(Root)))
             ELSE IF push = "nogit"
               THEN Failure(g, Msg.GitPythonPushFailed \o Err.NoGit)
             ELSE IF ~g.isRepo
               THEN Failure(g, Msg.GitCliPushFailed \o Err.PushExit128)
             ELSE IF push = "nobranch"
               THEN Failure(g, Msg.GitCliPushFailed \o Err.PushExit1)
             ELSE IF ~g.hasOrigin \/ push = "failed"
               THEN Failure(g, Msg.GitCliPushFailed \o Err.PushExit128)
             ELSE IF push = "rejected"
               THEN Failure(g, Msg.GitCliPushFailed \o Err.PushExit1)
             ELSE success(pushed)
        ELSE IF f[Root].kind # "dir" \/ ~g.isRepo
               THEN Failure(g, Msg.GitPythonPushFailed \o Name.root)
             ELSE IF ~g.hasOrigin
               THEN Failure(g, Msg.GitPythonPushFailed \o Err.NoOrigin)
             ELSE IF push = "nogit"
               THEN Failure(g, Msg.GitPythonPushFailed \o Err.GitNotFoundPush)
             ELSE IF push = "nobranch"
               THEN Failure(g, Msg.GitPythonPushFailed \o Err.GitPushNoBranch)
             ELSE IF push = "failed"
               THEN Failure(g, Msg.GitPythonPushFailed \o Err.GitPushFailed)
             ELSE IF push = "rejected"
               THEN success(g)
             ELSE success(pushed)

EmailNode == <<"email_draft.txt">>

\* the text Executor.create_email_draft builds: "\n".join(lines), the
\* recipients line being the last element of lines
EmailDraftContent(student_name, university, department, repo_url, recipients) ==
  JoinWith(Ed.Newline,
    << Ed.Subject \o Ed.SubjectPrefix \o Ed.SubjectOpen \o student_name \o Ed.SubjectClose,
       <<>>,
       Ed.Hello,
       <<>>,
       Ed.Pushed,
       repo_url,
       <<>>,
       Ed.Student \o student_name,
       Ed.University \o university,
       Ed.Department \o department,
       <<>>,
       Ed.Included,
       Ed.Item1,
       Ed.Item2,
       Ed.Item3,
       Ed.Item4,
       Ed.Item5,
       <<>>,
       Ed.Please,
       <<>>,
       Ed.Regards \o student_name,
       <<>>,
       IF recipients # <<>> THEN Ed.To \o JoinWith(Ed.Comma, recipients) ELSE <<>> >>)

\* Executor.create_email_draft: builds the text and writes it to out_path
create_email_draft(f, student_name, university, department, repo_url, recipients, fault) ==
  LET content == EmailDraftContent(student_name, university, department, repo_url, recipients)
      w == WriteFile(f, EmailNode, content, fault)
  IN  IF w.ok
        THEN [fs |-> w.fs,
              res |-> ExecutionResult(TRUE, Msg.EmailDraftCreated,
                                      TextDetails("path", <<FullPath(PlainPath(EmailNode))>>))]
        ELSE [fs |-> w.fs,
              res |-> ExecutionResult(FALSE, Msg.EmailDraftFailed \o w.err, NoDetails)]

----------------------------------------------------------------------------
(* Document generator (agent/README_generator.py) and emailer *)

RECURSIVE BulletLines_unique(_)
\* the bullet list with a repeated deliverable rendered only once
BulletLines_unique(deliverables) ==
  IF deliverables = <<>> THEN <<>>
  ELSE LET rest == SelectSeq(Tail(deliverables), LAMBDA d : d # Head(deliverables))
       IN  Rd.Bullet \o Head(deliverables) \o Rd.Newline \o BulletLines_unique(rest)

RECURSIVE BulletLines(_)
\* the loop "for deliverable in deliverables: readme_content += f'- {deliverable}\n'"
BulletLines(deliverables) ==
  IF deliverables = <<>> THEN <<>>
  ELSE Rd.Bullet \o Head(deliverables) \o Rd.Newline \o BulletLines(Tail(deliverables))

\* generate_readme leaving the how-to-run section out when no text is given
generate_readme_noDefaultHow(student_name, university, department, deliverables, repo_url, how_to_run, contact_email) ==
  LET contact_info == IF contact_email # <<>> THEN contact_email ELSE Rd.DefaultContact
  IN  Rd.Head \o student_name \o Rd.University \o university \o Rd.Department \o department
        \o Rd.Repository \o repo_url \o Rd.Deliverables
        \o BulletLines(deliverables)
        \o (IF how_to_run # <<>> THEN Rd.HowSupplied \o how_to_run \o Rd.Newline ELSE <<>>)
        \o Rd.Contact \o student_name \o Rd.ContactOpen \o contact_info \o Rd.ContactMid
        \o contact_info \o Rd.ContactClose

\* READMEGenerator.generate_readme; an omitted optional argument (None) and
\* an empty string both take the default branch, so <<>> stands for both
generate_readme(student_name, university, department, deliverables, repo_url, how_to_run, contact_email) ==
  LET contact_info == IF contact_email # <<>> THEN contact_email ELSE Rd.DefaultContact
  IN  Rd.Head \o student_name \o Rd.University \o university \o Rd.Department \o department
        \o Rd.Repository \o repo_url \o Rd.Deliverables
        \o BulletLines(deliverables)
        \o (IF how_to_run # <<>> THEN Rd.HowSupplied \o how_to_run \o Rd.Newline
                                 ELSE Rd.HowDefault)
        \o Rd.Contact \o student_name \o Rd.ContactOpen \o contact_info \o Rd.ContactMid
        \o contact_info \o Rd.ContactClose

\* READMEGenerator.validate_readme: plain substring tests
validate_readme(student_name, university, department, readme_content) ==
  [has_student_name |-> Contains(readme_content, student_name),
   has_university |-> Contains(readme_content, university),
   has_department |-> Contains(readme_content, department),
   has_deliverables_section |-> Contains(readme_content, Kw.Deliverables),
   has_how_to_run |-> Contains(readme_content, Kw.HowToRun),
   has_contact |-> Contains(readme_content, Kw.Contact)]

\* generate_email_draft
generate_email_draft(student_name, university, department, repo_url, recipient_emails, deliverables) ==
  LET recipients_str == JoinWith(Ge.Comma, recipient_emails)
      deliverables_list ==
        JoinWith(Ge.Newline, [k \in 1..Len(deliverables) |-> Ge.Bullet \o deliverables[k]])
  IN  Ge.To \o recipients_str \o Ge.Subject \o student_name \o Ge.Body \o repo_url
        \o Ge.Student \o student_name \o Ge.University \o university \o Ge.Department
        \o department \o Ge.Deliverables \o deliverables_list \o Ge.Closing \o student_name
        \o Ge.End

\* emailer.build_email; useDefault: to_list was None
build_email(student_name, university, department, repo_url, to_list, useDefault) ==
  [to |-> IF useDefault THEN <<DefaultTo.r1, DefaultTo.r2, DefaultTo.r3, DefaultTo.r4>>
                           ELSE to_list,
   subject |-> Be.SubjectPrefix \o student_name \o Be.SubjectClose,
   body |-> Be.Body \o repo_url \o Be.Student \o student_name \o Be.University \o university
              \o Be.Department \o department \o Be.Closing \o student_name \o Be.End]

\* emailer.save_draft: the text written to the draft file
save_draft(email) ==
  Sd.To \o JoinWith(Sd.Comma, email.to) \o Sd.Newline
    \o Sd.Subject \o email.subject \o Sd.Blank
    \o email.body

----------------------------------------------------------------------------
(* The page agent/ui.py: agent.README_generator has no make_readme, so the
   import fails and the page runs on the fallbacks it defines *)

\* the fallback make_readme of agent/ui.py
make_readme(student_name, university, department, deliverables, repo_url) ==
  Ui.ReadmeHead \o student_name \o Ui.ReadmeUniversity \o university
    \o Ui.ReadmeDepartment \o department \o Ui.ReadmeDeliverables
    \o JoinWith(Ui.Newline, [k \in 1..Len(deliverables) |-> Ui.Bullet \o deliverables[k]])
    \o Ui.ReadmeRepository \o repo_url \o Ui.ReadmeHow \o student_name \o Ui.ReadmeEnd

\* the fallback create_email_draft of agent/ui.py: no recipients line
ui_create_email_draft(student_name, university, department, repo_url) ==
  Ui.EmailSubject \o student_name \o Ui.EmailHello \o repo_url
    \o Ui.EmailStudent \o student_name \o Ui.EmailUniversity \o university
    \o Ui.EmailDepartment \o department \o Ui.EmailClosing \o student_name \o Ui.EmailEnd
----------------------------------------------------------------------------
(* Executor.execute_plan, one action at a time, and the plan-executor run *)

RecognisedTypes ==
  {ActionType.create_missing_files, ActionType.generate_readme, ActionType.run_tests, ActionType.git_commit, ActionType.git_push,
   ActionType.generate_email}

\* str(action.get("type")): the type as written, "None" when the key is absent
TypeText(action) == IF action.hasType THEN action.type ELSE Msg.None

\* key = f"{i:02d}_{a_type}"
ActionKey(i, action) == Format02d(i) \o Msg.KeySep \o TypeText(action)

\* results[key] = value on an insertion-ordered dict: an existing key keeps
\* its position and gets the new value, a new key goes to the end
DictSet(d, key, value) ==
  IF \E j \in 1..Len(d) : d[j].key = key
    THEN [j \in 1..Len(d) |-> IF d[j].key = key THEN [key |-> key, value |-> value] ELSE d[j]]
    ELSE Append(d, [key |-> key, value |-> value])

\* what the environment does during one dispatched action
NoEnv ==
  [failAt |-> 0, outcome |-> "exit0", commit |-> "ok", push |-> "pushed", fault |-> FALSE]

\* the result of one branch of the dispatch: the world after it, the result
\* to record, the Executor operations it called, or the exception it raised
Returned(f, g, res, ops) ==
  [fs |-> f, git |-> g, res |-> res, calls |-> ops, raised |-> FALSE, err |-> <<>>]

Raised(f, g, err, ops) ==
  [fs |-> f, git |-> g, res |-> ExecutionResult(FALSE, <<>>, NoDetails), calls |-> ops,
   raised |-> TRUE, err |-> err]

\* an unknown type taken for a step that needs no work
UnknownAction_accepted(action) == ExecutionResult(TRUE, Msg.ReadmeDelegated, NoDetails)

\* the else branch of the dispatch: a type that is not one of the six
UnknownAction(action) ==
  ExecutionResult(FALSE, Msg.UnknownAction \o TypeText(action), NoDetails)

\* the body of the loop of execute_plan for one action
Dispatch(f, lg, g, p, action, env) ==
  LET a_type == action.type
  IN  IF action.hasType /\ a_type = ActionType.create_missing_files
        THEN \* action.get("files", []): an absent key gives [], a null stays None
             IF action.filesKind = "null"
               THEN Raised(f, g, Err.NotIterable, <<"create_placeholders">>)
               ELSE LET files == IF action.filesKind = "list" THEN action.files ELSE <<>>
                        r == create_placeholders(f, files, env.failAt)
                    IN  Returned(r.fs, g, r.res, <<"create_placeholders">>)
      ELSE IF action.hasType /\ a_type = ActionType.generate_readme
        THEN Returned(f, g, ExecutionResult(TRUE, Msg.ReadmeDelegated, NoDetails), <<>>)
      ELSE IF action.hasType /\ a_type = ActionType.run_tests
        THEN LET r == run_tests(f, env.outcome)
             IN  Returned(f, g, r.res,
                          IF r.launched THEN <<"run_tests", "pytest">> ELSE <<"run_tests">>)
      ELSE IF action.hasType /\ a_type = ActionType.git_commit
        THEN LET r == git_commit(f, lg, g, env.commit)
             IN  Returned(f, r.git, r.res, <<"git_commit">>)
      ELSE IF action.hasType /\ a_type = ActionType.git_push
        THEN LET r == git_push(f, g, env.push)
             IN  Returned(f, r.git, r.res, <<"git_push">>)
      ELSE IF action.hasType /\ a_type = ActionType.generate_email
        THEN \* params = action.get("parameters", {}); params.get("recipients", [])
             IF action.paramsKind = "null"
               THEN Raised(f, g, Err.NoGet, <<>>)
               ELSE LET recipients ==
                          IF action.paramsKind = "object" THEN action.recipients ELSE <<>>
                        r == create_email_draft(f, p.student_name, p.university,
                                                p.department, p.repo_url, recipients,
                                                env.fault)
                    IN  Returned(r.fs, g, r.res, <<"create_email_draft">>)
      ELSE Returned(f, g, UnknownAction(action), <<>>)

\* {k: v.__dict__ for k, v in results.items()}: what json.dump writes
LogEntries(res) ==
  [j \in 1..Len(res) |->
     [key |-> res[j].key, success |-> res[j].value.success,
      message |-> res[j].value.message, details |-> res[j].value.details]]

LogsNode == <<"interaction_logs">>

----------------------------------------------------------------------------
(* Inputs and initial states *)

UserText == <<"h", "i">>

\* a tree with the repository directory, by the kinds of its entries
Tree(readme, docs, report, tests, logsdir) ==
  [n \in Nodes |->
     CASE n = Root -> DirEntry
       [] n = <<"README.md">> -> readme
       [] n = <<"docs">> -> docs
       [] n = <<"docs", "report.pdf">> -> report
       [] n = <<"tests">> -> tests
       [] n = <<"interaction_logs">> -> logsdir
       [] OTHER -> NoEntry]

\* repo_path names a directory that does not exist
NoRepoTree == [n \in Nodes |-> NoEntry]

\* the trees an operation can find: an entry exists only under a directory
Trees ==
  {Tree(readme, docs, report, tests, logsdir) :
     readme \in {NoEntry, FileEntry(UserText)},
     docs \in {NoEntry, DirEntry, FileEntry(UserText)},
     report \in {NoEntry, FileEntry(UserText)},
     tests \in {NoEntry, DirEntry},
     logsdir \in {NoEntry, DirEntry, FileEntry(UserText)}}
    \cup {NoRepoTree}

WellFormedTree(f) ==
  \A n \in Nodes : f[n].kind # "none" =>
    \A k \in 0..(Len(n) - 1) : f[SubSeq(n, 1, k)].kind = "dir"

NoLog == [present |-> FALSE, entries |-> <<>>]

\* no file and no log: what a repository without a commit holds as
\* committed and as staged
NoFiles == WorkTree(NoRepoTree, [t \in 1..MaxClock |-> NoLog])

\* the version-control side of the tree f before any operation: g.head is
\* what the last commit holds and g.index what is staged, each either
\* nothing or one of the given contents
GitStates(f, contents) ==
  [lib : BOOLEAN, isRepo : BOOLEAN, hasOrigin : BOOLEAN, head : {NoFiles} \cup contents,
   index : {NoFiles} \cup contents, commits : {0}, pushes : {0}]

\* a repository that is none has neither remote nor content
WellFormedGit(g) == ~g.isRepo => (~g.hasOrigin /\ g.head = NoFiles /\ g.index = NoFiles)

\* the version-control side of a tree: a directory that does not exist holds
\* no repository
GitOf(f, g) ==
  IF f[Root].kind = "dir" THEN g
  ELSE [g EXCEPT !.isRepo = FALSE, !.hasOrigin = FALSE, !.head = NoFiles, !.index = NoFiles]

EmptyPlan ==
  [actions |-> <<>>, student_name |-> <<>>, university |-> <<>>, department |-> <<>>,
   repo_url |-> <<>>]

\* the state shared by every initial state: nothing called, no run started
InitIdle ==
  /\ planner = [required_files |-> <<>>, plan |-> <<>>]
  /\ ret = [op |-> "none"]
  /\ pc = "idle"
  /\ runPlan = EmptyPlan
  /\ idx = 0
  /\ results = <<>>
  /\ calls = <<>>
  /\ logs = [t \in 1..MaxClock |-> NoLog]
  /\ clock = 1

runVars == <<pc, runPlan, idx, results, calls, logs, clock>>

----------------------------------------------------------------------------
(* Operations on the tree, called directly *)

\* Executor.create_placeholders(files)
CreatePlaceholders ==
  /\ pc = "idle"
  /\ \E files \in PathLists : \E failAt \in 0..Len(files) :
       LET r == create_placeholders(fs, files, failAt)
       IN  /\ fs' = r.fs
           /\ git' = git
           /\ ret' = [op |-> "create_placeholders", files |-> files, failAt |-> failAt,
                      before |-> fs, res |-> r.res]
  /\ UNCHANGED <<planner, runVars>>

\* create_placeholder_files(base_path, missing_files)
CreatePlaceholderFiles ==
  /\ pc = "idle"
  /\ \E files \in PathLists : \E failAt \in 0..Len(files) :
       LET r == create_placeholder_files(fs, files, failAt)
       IN  /\ fs' = r.fs
           /\ git' = git
           /\ ret' = [op |-> "create_placeholder_files", files |-> files,
                      failAt |-> failAt, before |-> fs, raised |-> ~r.ok, err |-> r.err]
  /\ UNCHANGED <<planner, runVars>>

\* Executor.validate_required(required_files)
ValidateRequired ==
  /\ pc = "idle"
  /\ \E files \in PathLists :
       ret' = [op |-> "validate_required", files |-> files, before |-> fs,
               res |-> validate_required(fs, files)]
  /\ UNCHANGED <<fs, git, planner, runVars>>

\* validate_deliverables(base_path, required_files)
ValidateDeliverables ==
  /\ pc = "idle"
  /\ \E files \in PathLists :
       ret' = [op |-> "validate_deliverables", files |-> files, before |-> fs,
               missing |-> validate_deliverables(fs, files)]
  /\ UNCHANGED <<fs, git, planner, runVars>>

\* the trees without log directory and without tests, for the path operations
FileTrees ==
  {f \in Trees : WellFormedTree(f) /\ f[LogsNode].kind = "none" /\ f[<<"tests">>].kind = "none"}

\* a repository whose last commit holds the files of the tree f
CleanGit(f) ==
  [lib |-> TRUE, isRepo |-> TRUE, hasOrigin |-> TRUE, head |-> WorkTree(f, NoFiles.logs),
   index |-> WorkTree(f, NoFiles.logs), commits |-> 0, pushes |-> 0]

InitFiles ==
  /\ InitIdle
  /\ fs \in FileTrees
  /\ git = GitOf(fs, CleanGit(fs))

NextFiles ==
  \/ CreatePlaceholders
  \/ CreatePlaceholderFiles
  \/ ValidateRequired
  \/ ValidateDeliverables

\* the placeholder and validation operations, called in any order
SpecFiles == InitFiles /\ [][NextFiles]_vars

NextPlaceholders ==
  \/ CreatePlaceholders
  \/ ValidateRequired

\* the operations of the Executor object on the required paths, in any order
SpecPlaceholders == InitFiles /\ [][NextPlaceholders]_vars
----------------------------------------------------------------------------
(* The planner, called directly *)

\* DeliverablePlanner(repo_path, required_files)
NewPlanner ==
  /\ pc = "idle"
  /\ \E files \in PathLists :
       /\ planner' = [required_files |-> files, plan |-> <<>>]
       /\ ret' = [op |-> "DeliverablePlanner", files |-> files]
  /\ UNCHANGED <<fs, git, runVars>>

\* DeliverablePlanner.analyze_deliverables()
AnalyzeDeliverables ==
  /\ pc = "idle"
  /\ ret' = [op |-> "analyze_deliverables", files |-> planner.required_files,
             value |-> analyze_deliverables(fs, planner.required_files)]
  /\ UNCHANGED <<fs, git, planner, runVars>>

\* DeliverablePlanner.generate_plan()
GeneratePlan ==
  /\ pc = "idle"
  /\ LET new == generate_plan(fs, planner.required_files, planner.plan)
     IN  /\ planner' = [planner EXCEPT !.plan = new]
         /\ ret' = [op |-> "generate_plan", files |-> planner.required_files,
                    previous |-> planner.plan, value |-> new]
  /\ UNCHANGED <<fs, git, runVars>>

\* the missing deliverables get their placeholders between two planner calls:
\* Executor.create_placeholders(status["missing"])
CreateMissing ==
  /\ pc = "idle"
  /\ LET files == analyze_deliverables(fs, planner.required_files).missing
         r == create_placeholders(fs, files, 0)
     IN  /\ files # <<>>
         /\ fs' = r.fs
         /\ git' = git
         /\ ret' = [op |-> "create_placeholders", files |-> files, failAt |-> 0,
                    before |-> fs, res |-> r.res]
  /\ UNCHANGED <<planner, runVars>>

InitPlanner ==
  /\ InitIdle
  /\ fs \in FileTrees
  /\ git = GitOf(fs, CleanGit(fs))

NextPlanner ==
  \/ NewPlanner
  \/ AnalyzeDeliverables
  \/ GeneratePlan
  \/ CreateMissing

\* a planner is built and asked for its analysis and its plan, any number of
\* times, while the missing deliverables are being created
SpecPlanner == InitPlanner /\ [][NextPlanner]_vars

----------------------------------------------------------------------------
(* The checks of the Executor, called directly *)

\* Executor.run_tests()
RunTests ==
  /\ pc = "idle"
  /\ \E outcome \in RunnerOutcomes :
       LET r == run_tests(fs, outcome)
       IN  ret' = [op |-> "run_tests", outcome |-> outcome, res |-> r.res,
                   launched |-> r.launched]
  /\ UNCHANGED <<fs, git, planner, runVars>>

\* what the test runner of run_validation_tests does: it exits, it is not
\* found, or the launch fails with another error; no timeout is set
ValidationOutcomes == {"exit0", "exit1", "notfound", "denied"}

\* run_validation_tests of the module agent/executor.py: both except
\* branches return True
run_validation_tests(outcome) ==
  CASE outcome = "exit0" -> TRUE
    [] outcome = "exit1" -> FALSE
    [] outcome = "notfound" -> TRUE
    [] outcome = "denied" -> TRUE

\* run_validation_tests(repo_path)
RunValidationTests ==
  /\ pc = "idle"
  /\ \E outcome \in ValidationOutcomes :
       ret' = [op |-> "run_validation_tests", outcome |-> outcome,
               value |-> run_validation_tests(outcome)]
  /\ UNCHANGED <<fs, git, planner, runVars>>

\* which form each of the seven markers of a README takes: 0 for absent;
\* the third form of the title and the second of the university are written
\* with a letter outside ASCII that (?i) folds onto an ASCII one
MarkerLine(n, form) ==
  CASE form = 0 -> <<>>
    [] n = 1 -> IF form = 1 THEN Mk.TitleHeading
                ELSE IF form = 2 THEN Mk.TitleWord ELSE Mk.TitleDottedI
    [] n = 2 -> IF form = 1 THEN Mk.Student ELSE Mk.Name
    [] n = 3 -> IF form = 1 THEN Mk.University ELSE Mk.UniversityLongS
    [] n = 4 -> Mk.Department
    [] n = 5 -> Mk.Deliverables
    [] n = 6 -> IF form = 1 THEN Mk.HowToRun ELSE Mk.Installation
    [] n = 7 -> Mk.Contact

MarkerForms(n) ==
  IF n = 1 THEN {1, 2, 3} ELSE IF n \in {2, 3, 6} THEN {1, 2} ELSE {1}

\* the README texts the validation is run on: every marker present in one of
\* its forms, or exactly one of the seven markers (gone) taken out
MarkerChoices ==
  {[n \in 1..7 |-> IF n = gone THEN 0
                   ELSE IF n = 1 THEN f1 ELSE IF n = 2 THEN f2 ELSE IF n = 3 THEN f3
                   ELSE IF n = 6 THEN f6 ELSE 1] :
     gone \in 0..7, f1 \in MarkerForms(1), f2 \in MarkerForms(2), f3 \in MarkerForms(3),
     f6 \in MarkerForms(6)}

ReadmeOf(m) == Concat([n \in 1..7 |-> MarkerLine(n, m[n])])

\* READMEGenerator.save_readme(readme_content, repo_path): the file is opened
\* outside any try, so a missing repository directory and a refusal of the
\* operating system (fault) raise and nothing is written
SaveReadme ==
  /\ pc = "idle"
  /\ \E m \in MarkerChoices : \E fault \in BOOLEAN :
       LET w == WriteFile(fs, ReadmeNode, ReadmeOf(m), fault)
       IN  /\ fs' = w.fs
           /\ git' = git
           /\ ret' = [op |-> "save_readme", raised |-> ~w.ok, err |-> w.err]
  /\ UNCHANGED <<planner, runVars>>

\* Executor.assert_readme_fields()
AssertReadmeFields ==
  /\ pc = "idle"
  /\ ret' = [op |-> "assert_readme_fields", res |-> assert_readme_fields(fs)]
  /\ UNCHANGED <<fs, git, planner, runVars>>

InitChecks ==
  /\ InitIdle
  /\ fs \in {f \in Trees : /\ WellFormedTree(f)
                           /\ f[LogsNode].kind = "none"
                           /\ f[<<"docs">>].kind = "none"}
  /\ git = GitOf(fs, CleanGit(fs))

NextChecks ==
  \/ RunTests
  \/ RunValidationTests
  \/ SaveReadme
  \/ AssertReadmeFields

\* the read-only checks of the Executor, on trees and README texts
SpecChecks == InitChecks /\ [][NextChecks]_vars

----------------------------------------------------------------------------
(* The document generators, called directly *)

StudentNames == {Txt.A, Txt.Ada}

\* every list of length at most MaxItems over a set of texts
ListsOver(S) == UNION {[1..n -> S] : n \in 0..MaxItems}

DeliverableLists == ListsOver({Txt.X, Txt.Y})

RecipientLists == ListsOver({Rcpt.r1, Rcpt.r2})

\* READMEGenerator(name, university, department).generate_readme(...)
GenerateReadme ==
  /\ pc = "idle"
  /\ \E name \in StudentNames : \E university \in {Txt.U, Txt.Uni} :
       \E deliverables \in DeliverableLists :
         \E how \in {<<>>, Txt.How} : \E contact \in {<<>>, Rcpt.r1} :
           ret' = [op |-> "generate_readme", student_name |-> name,
                   university |-> university, department |-> Txt.D,
                   deliverables |-> deliverables, repo_url |-> Txt.Url,
                   how_to_run |-> how, contact_email |-> contact,
                   value |-> generate_readme(name, university, Txt.D, deliverables,
                                             Txt.Url, how, contact)]
  /\ UNCHANGED <<fs, git, planner, runVars>>

\* generate_email_draft(...)
GenerateEmailDraft ==
  /\ pc = "idle"
  /\ \E name \in StudentNames : \E recipients \in RecipientLists :
       ret' = [op |-> "generate_email_draft", student_name |-> name,
               recipients |-> recipients,
               value |-> generate_email_draft(name, Txt.U, Txt.D, Txt.Url, recipients,
                                              <<Txt.X, Txt.Y>>)]
  /\ UNCHANGED <<fs, git, planner, runVars>>

\* emailer: save_draft(path, build_email(...)); the draft file is the value.
\* The file is opened outside any try, so a missing repository directory and
\* a refusal of the operating system (fault) raise and no draft is written.
SaveDraft ==
  /\ pc = "idle"
  /\ \E name \in StudentNames : \E recipients \in RecipientLists :
       \E useDefault \in BOOLEAN : \E fault \in BOOLEAN :
         LET email == build_email(name, Txt.U, Txt.D, Txt.Url, recipients, useDefault)
             w == WriteFile(fs, EmailNode, save_draft(email), fault)
         IN  /\ useDefault => recipients = <<>>
             /\ fs' = w.fs
             /\ git' = git
             /\ ret' = [op |-> "save_draft", student_name |-> name,
                        recipients |-> email.to, raised |-> ~w.ok, err |-> w.err,
                        value |-> IF w.ok THEN w.fs[EmailNode].data ELSE <<>>]
  /\ UNCHANGED <<planner, runVars>>

\* Executor.create_email_draft(...); the draft file is the value
CreateEmailDraft ==
  /\ pc = "idle"
  /\ \E name \in StudentNames : \E recipients \in RecipientLists : \E fault \in BOOLEAN :
       LET r == create_email_draft(fs, name, Txt.U, Txt.D, Txt.Url, recipients, fault)
       IN  /\ fs' = r.fs
           /\ git' = git
           /\ ret' = [op |-> "create_email_draft", student_name |-> name,
                      recipients |-> recipients, res |-> r.res,
                      value |-> r.fs[EmailNode].data]
  /\ UNCHANGED <<planner, runVars>>

InitDocs ==
  /\ InitIdle
  /\ fs \in {Tree(NoEntry, NoEntry, NoEntry, NoEntry, NoEntry), NoRepoTree}
  /\ git = GitOf(fs, CleanGit(fs))

NextDocs ==
  \/ GenerateReadme
  \/ GenerateEmailDraft
  \/ SaveDraft
  \/ CreateEmailDraft

\* the README and email generators, on every input of the bounded sets
SpecDocs == InitDocs /\ [][NextDocs]_vars

NextReadme ==
  \/ GenerateReadme
  \/ GenerateEmailDraft

\* the two generators that only return a text, on every input of the bounded sets
SpecReadme == InitDocs /\ [][NextReadme]_vars
----------------------------------------------------------------------------
(* The version-control operations, called directly *)

\* git_add_all of the module agent/executor.py: Repo(repo_path) and
\* repo.git.add(all=True), neither inside a try; the index becomes the files
\* of the working tree
git_add_all(f, lg, g, out) ==
  IF f[Root].kind # "dir" \/ ~g.isRepo \/ out \in {"nogit", "add128"}
    THEN [git |-> g, raised |-> TRUE]
    ELSE [git |-> [g EXCEPT !.index = WorkTree(f, lg)], raised |-> FALSE]

\* git_commit of the module agent/executor.py: repo.index.commit(message)
\* records the index as a new commit whether or not it differs from HEAD;
\* a hook that refuses raises
module_git_commit(f, g, out) ==
  IF f[Root].kind # "dir" \/ ~g.isRepo \/ out = "commit1"
    THEN [git |-> g, raised |-> TRUE]
    ELSE [git |-> [g EXCEPT !.head = g.index, !.commits = @ + 1], raised |-> FALSE]

\* git_push of the module agent/executor.py: every exception is printed
module_git_push(f, g, push) ==
  IF f[Root].kind = "dir" /\ g.isRepo /\ g.hasOrigin /\ push = "pushed"
    THEN [git |-> [g EXCEPT !.pushes = @ + 1], raised |-> FALSE]
    ELSE [git |-> g, raised |-> FALSE]

\* Executor.git_commit()
GitCommit ==
  /\ pc = "idle"
  /\ git.commits < MaxCommits
  /\ \E out \in CommitOutcomes :
       LET r == git_commit(fs, logs, git, out)
       IN  /\ git' = r.git
           /\ ret' = [op |-> "git_commit", before |-> git, out |-> out,
                      res |-> r.res, raised |-> FALSE]
  /\ UNCHANGED <<fs, planner, runVars>>

\* Executor.git_push()
GitPush ==
  /\ pc = "idle"
  /\ git.pushes < MaxPushes
  /\ \E push \in PushOutcomes :
       LET r == git_push(fs, git, push)
       IN  /\ git' = r.git
           /\ ret' = [op |-> "git_push", before |-> git, push |-> push, res |-> r.res,
                      raised |-> FALSE]
  /\ UNCHANGED <<fs, planner, runVars>>

\* git_add_all(repo_path); the module imports the library binding at its top
GitAddAll ==
  /\ pc = "idle"
  /\ git.lib
  /\ \E out \in {"ok", "nogit", "add128"} :
       LET r == git_add_all(fs, logs, git, out)
       IN  /\ git' = r.git
           /\ ret' = [op |-> "git_add_all", before |-> git, raised |-> r.raised]
  /\ UNCHANGED <<fs, planner, runVars>>

\* git_commit(repo_path, message) of the module agent/executor.py
ModuleGitCommit ==
  /\ pc = "idle"
  /\ git.lib
  /\ git.commits < MaxCommits
  /\ \E out \in {"ok", "commit1"} :
       LET r == module_git_commit(fs, git, out)
       IN  /\ git' = r.git
           /\ ret' = [op |-> "module_git_commit", before |-> git, out |-> out,
                      raised |-> r.raised]
  /\ UNCHANGED <<fs, planner, runVars>>

\* git_push(repo_path) of the module agent/executor.py
ModuleGitPush ==
  /\ pc = "idle"
  /\ git.lib
  /\ git.pushes < MaxPushes
  /\ \E push \in PushOutcomes :
       LET r == module_git_push(fs, git, push)
       IN  /\ git' = r.git
           /\ ret' = [op |-> "module_git_push", before |-> git, push |-> push,
                      raised |-> r.raised]
  /\ UNCHANGED <<fs, planner, runVars>>

\* the button "Save README to File" of agent/ui.py: the preview text is
\* written inside a try and the page shows the outcome
UiSaveReadme ==
  /\ pc = "idle"
  /\ \E name \in StudentNames : \E fault \in BOOLEAN :
       LET w == WriteFile(fs, ReadmeNode,
                          make_readme(name, Txt.U, Txt.D, Ui.deliverables_list, Txt.Url), fault)
       IN  /\ fs' = w.fs
           /\ git' = git
           /\ ret' = [op |-> "ui_save_readme", student_name |-> name, raised |-> FALSE,
                      written |-> w.ok,
                      shown |-> IF w.ok THEN Ui.ReadmeSaved \o FullPath(PlainPath(ReadmeNode))
                                        ELSE Ui.ReadmeError \o w.err]
  /\ UNCHANGED <<planner, runVars>>

\* the button "Push to GitHub" of agent/ui.py: the README is written, then
\* git_push(repo_path) is called, which is the fallback of the page: it
\* returns True and pushes nothing
UiPush ==
  /\ pc = "idle"
  /\ \E name \in StudentNames : \E fault \in BOOLEAN :
       LET w == WriteFile(fs, ReadmeNode,
                          make_readme(name, Txt.U, Txt.D, Ui.deliverables_list, Txt.Url), fault)
       IN  /\ fs' = w.fs
           /\ git' = git
           /\ ret' = [op |-> "ui_push", student_name |-> name, raised |-> FALSE,
                      written |-> w.ok,
                      shown |-> IF w.ok THEN Ui.Pushed ELSE Ui.PushError \o w.err]
  /\ UNCHANGED <<planner, runVars>>

\* the button "Generate Email Draft" of agent/ui.py
UiSaveEmailDraft ==
  /\ pc = "idle"
  /\ \E name \in {Txt.A} : \E fault \in BOOLEAN :
       LET w == WriteFile(fs, EmailNode,
                          ui_create_email_draft(name, Txt.U, Txt.D, Txt.Url), fault)
       IN  /\ fs' = w.fs
           /\ git' = git
           /\ ret' = [op |-> "ui_save_email_draft", student_name |-> name, raised |-> FALSE,
                      written |-> w.ok,
                      shown |-> IF w.ok THEN Ui.DraftSaved \o FullPath(PlainPath(EmailNode))
                                        ELSE Ui.DraftError \o w.err]
  /\ UNCHANGED <<planner, runVars>>

\* a repository directory without a file, or no directory; the repository
\* holds nothing or a README a page has saved, as committed and as staged
InitGit ==
  /\ InitIdle
  /\ fs \in {Tree(NoEntry, NoEntry, NoEntry, NoEntry, NoEntry), NoRepoTree}
  /\ LET readme == make_readme(Txt.A, Txt.U, Txt.D, Ui.deliverables_list, Txt.Url)
         saved == WorkTree(WriteFile(fs, ReadmeNode, readme, FALSE).fs, logs)
     IN  git \in {GitOf(fs, g) : g \in {h \in GitStates(fs, {saved}) : WellFormedGit(h)}}

NextGit ==
  \/ GitCommit
  \/ GitPush
  \/ GitAddAll
  \/ ModuleGitCommit
  \/ ModuleGitPush
  \/ UiSaveReadme
  \/ UiPush
  \/ UiSaveEmailDraft

\* the version-control operations on a repository, through the library
\* binding or through the command line, and the buttons of the page, one of
\* which writes the README and pushes
SpecGit == InitGit /\ [][NextGit]_vars
----------------------------------------------------------------------------
(* The plan-executor run: load the plan, walk it, write the result log *)

\* one entry of the "actions" list of a plan file; filesKind and paramsKind
\* tell whether the key is absent, null, or holds a value
Action(type, hasType, filesKind, files, paramsKind, recipients) ==
  [type |-> type, hasType |-> hasType, filesKind |-> filesKind, files |-> files,
   paramsKind |-> paramsKind, recipients |-> recipients]

Plain(type) == Action(type, TRUE, "missing", <<>>, "missing", <<>>)

\* the actions the plans are made of
ActionShapes ==
  {Action(ActionType.create_missing_files, TRUE, "list", <<P_report>>, "missing", <<>>),
   Action(ActionType.create_missing_files, TRUE, "missing", <<>>, "missing", <<>>),
   Action(ActionType.create_missing_files, TRUE, "null", <<>>, "missing", <<>>),
   Plain(ActionType.generate_readme),
   Plain(ActionType.run_tests),
   Plain(ActionType.git_commit),
   Plain(ActionType.git_push),
   Action(ActionType.generate_email, TRUE, "missing", <<>>, "object", <<Rcpt.r1>>),
   Plain(ActionType.generate_email),
   Action(ActionType.generate_email, TRUE, "missing", <<>>, "null", <<>>),
   Plain(ActionType.bogus),
   Action(<<>>, FALSE, "missing", <<>>, "missing", <<>>)}

\* the plan files: every action list of length at most MaxActions
Plans ==
  {[actions |-> a, student_name |-> Txt.A, university |-> Txt.U, department |-> Txt.D,
    repo_url |-> Txt.Url] :
     a \in UNION {[1..n -> ActionShapes] : n \in 0..MaxActions}}

\* the behaviours of the environment that matter for an action
EnvsFor(action) ==
  IF ~action.hasType THEN {NoEnv}
  ELSE IF action.type = ActionType.create_missing_files
    THEN {[NoEnv EXCEPT !.failAt = k] : k \in 0..Len(action.files)}
  ELSE IF action.type = ActionType.run_tests
    THEN {[NoEnv EXCEPT !.outcome = o] : o \in RunnerOutcomes}
  ELSE IF action.type = ActionType.git_commit
    THEN {[NoEnv EXCEPT !.commit = o] : o \in CommitOutcomes}
  ELSE IF action.type = ActionType.git_push
    THEN {[NoEnv EXCEPT !.push = o] : o \in PushOutcomes}
  ELSE IF action.type = ActionType.generate_email
    THEN {[NoEnv EXCEPT !.fault = b] : b \in BOOLEAN}
  ELSE {NoEnv}

\* json.load(plan file); ex = Executor(repo_path), whose constructor creates
\* "interaction_logs/" under the working directory of the process
StartRunOf(plans) ==
  /\ pc = "idle"
  /\ \E p \in plans : \E cwd \in {"repo", "elsewhere", "refused"} :
       LET made == IF cwd = "repo" THEN makedirs(fs, [comps |-> LogsNode, slash |-> TRUE], FALSE)
                   ELSE [fs |-> fs, ok |-> cwd = "elsewhere", err |-> Err.Permission]
       IN  /\ cwd = "repo" => fs[Root].kind = "dir"
           /\ fs' = made.fs
           /\ git' = git
           /\ pc' = IF made.ok THEN "walk" ELSE "raised"
           /\ runPlan' = p
           /\ ret' = [op |-> "Executor", cwd |-> cwd, raised |-> ~made.ok]
  /\ idx' = 0
  /\ results' = <<>>
  /\ calls' = <<>>
  /\ UNCHANGED <<planner, logs, clock>>

\* a run on any of the plan files
StartRun == StartRunOf(Plans)

\* one iteration of the loop of Executor.execute_plan
ExecStep ==
  /\ pc = "walk"
  /\ idx < Len(runPlan.actions)
  /\ LET action == runPlan.actions[idx + 1]
     IN  \E env \in EnvsFor(action) :
           LET d == Dispatch(fs, logs, git, runPlan, action, env)
           IN  /\ fs' = d.fs
               /\ git' = d.git
               /\ calls' = calls \o d.calls
               /\ ret' = [op |-> "execute_plan", index |-> idx + 1, action |-> action,
                          before |-> [fs |-> fs, git |-> git], res |-> d.res,
                          calls |-> d.calls, raised |-> d.raised]
               /\ IF d.raised
                    THEN /\ pc' = "raised"
                         /\ UNCHANGED <<idx, results>>
                    ELSE /\ pc' = "walk"
                         /\ idx' = idx + 1
                         /\ results' = DictSet(results, ActionKey(idx + 1, action), d.res)
  /\ UNCHANGED <<planner, runPlan, logs, clock>>

\* after execute_plan has returned: the log directory is ensured under the
\* repository path and the results are dumped to execution_<timestamp>.json,
\* a file of the working tree; nothing is staged or committed
WriteLog ==
  /\ pc = "walk"
  /\ idx = Len(runPlan.actions)
  /\ \E fault \in BOOLEAN :
       LET made == makedirs(fs, PlainPath(LogsNode), fault)
           written == made.ok /\ ~fault
           dumped == [logs EXCEPT ![clock] = [present |-> TRUE, entries |-> LogEntries(results)]]
       IN  /\ fs' = made.fs
           /\ git' = git
           /\ pc' = IF written THEN "done" ELSE "raised"
           /\ logs' = IF written THEN dumped ELSE logs
           /\ ret' = [op |-> "write_log", raised |-> ~written, second |-> clock,
                      before |-> logs]
  /\ UNCHANGED <<planner, runPlan, idx, results, calls, clock>>

\* the trees a run starts on: an empty repository, and one where a test
\* directory exists and regular files sit where "docs" and the log directory go
RunTrees ==
  {Tree(NoEntry, NoEntry, NoEntry, NoEntry, NoEntry),
   Tree(NoEntry, FileEntry(UserText), NoEntry, DirEntry, FileEntry(UserText))}

\* the repositories a run starts on, each with a remote and reached through
\* the library binding or through the command line: what is committed and
\* staged is nothing, the files of the tree, or these and the draft the plan
\* asks for, which is then gone from the tree
RunGits(f) ==
  {g \in GitStates(f, {WorkTree(f, NoFiles.logs),
                       WorkTree(create_email_draft(f, Txt.A, Txt.U, Txt.D, Txt.Url, <<>>, FALSE).fs,
                                NoFiles.logs)}) :
     g.isRepo /\ g.hasOrigin /\ g.index = g.head}

Init ==
  /\ InitIdle
  /\ fs \in RunTrees \cup {NoRepoTree}
  /\ git \in {GitOf(fs, g) : g \in RunGits(fs)}

Next ==
  \/ StartRun
  \/ ExecStep
  \/ WriteLog

\* one run of the plan executor on a plan file
Spec == Init /\ [][Next]_vars

----------------------------------------------------------------------------
(* Runs of the plan executor one after the other on the same repository *)

\* two plan files whose results differ
LogPlans ==
  {[actions |-> <<a>>, student_name |-> Txt.A, university |-> Txt.U, department |-> Txt.D,
    repo_url |-> Txt.Url] : a \in {Plain(ActionType.generate_readme), Plain(ActionType.bogus)}}

\* a run on one of the two plan files
StartLoggedRun == StartRunOf(LogPlans)

\* the process of a run ends, after its log is written or with a traceback
EndRun ==
  /\ pc \in {"done", "raised"}
  /\ pc' = "idle"
  /\ ret' = [op |-> "exit"]
  /\ UNCHANGED <<fs, git, planner, runPlan, idx, results, calls, logs, clock>>

\* the wall clock, which names the log file, reaches the next second
Tick ==
  /\ clock < MaxClock
  /\ clock' = clock + 1
  /\ UNCHANGED <<fs, git, planner, ret, pc, runPlan, idx, results, calls, logs>>

\* the repository holds no file; its last commit holds nothing, or the log
\* of an earlier run that read the first plan file in the first second, a
\* log that is gone from the tree
InitRuns ==
  /\ InitIdle
  /\ fs = Tree(NoEntry, NoEntry, NoEntry, NoEntry, NoEntry)
  /\ git \in {g \in GitStates(fs, {[NoFiles EXCEPT !.logs[1] =
                                      [present |-> TRUE,
                                       entries |-> LogEntries(DictSet(<<>>, ActionKey(1, Plain(ActionType.generate_readme)),
                                                                      ExecutionResult(TRUE, Msg.ReadmeDelegated, NoDetails)))]]}) :
                g.isRepo /\ g.hasOrigin /\ g.index = g.head}

NextRuns ==
  \/ StartLoggedRun
  \/ ExecStep
  \/ WriteLog
  \/ EndRun
  \/ Tick

\* any number of runs of the plan executor on the same repository path
SpecRuns == InitRuns /\ [][NextRuns]_vars
----------------------------------------------------------------------------
(* Properties *)

Recognised(action) == action.hasType /\ action.type \in RecognisedTypes

\* the part of a key before its first "_"
KeyIndexText(key) ==
  LET k == CHOOSE k \in 1..Len(key) : key[k] = "_" /\ \A j \in 1..(k - 1) : key[j] # "_"
  IN  SubSeq(key, 1, k - 1)

\* the part of a key after its first "_"
KeyTypeText(key) ==
  LET k == CHOOSE k \in 1..Len(key) : key[k] = "_" /\ \A j \in 1..(k - 1) : key[j] # "_"
  IN  SubSeq(key, k + 1, Len(key))

RECURSIVE DecimalValue(_)
\* int(text) for a text of decimal digits
DecimalValue(text) ==
  IF text = <<>> THEN 0
  ELSE 10 * DecimalValue(SubSeq(text, 1, Len(text) - 1))
         + (CHOOSE d \in 0..9 : Digits[d + 1] = text[Len(text)])

\* the entries of the mapping while execute_plan walks a plan: one per
\* action walked so far, in plan order; the key of the i-th entry reads
\* "<i>_<type of the i-th action>" and no two entries share a key
EntriesInPlanOrder ==
  /\ Len(results) = idx
  /\ \A j \in 1..Len(results) :
       /\ \E k \in 1..Len(results[j].key) : results[j].key[k] = "_"
       /\ DecimalValue(KeyIndexText(results[j].key)) = j
       /\ KeyTypeText(results[j].key) = TypeText(runPlan.actions[j])
  /\ \A j, k \in 1..Len(results) : j # k => results[j].key # results[k].key

\* C1: for every plan of n actions execute_plan returns a mapping of exactly
\* n entries, one per action, in plan order; the key of the i-th entry reads
\* "<i>_<type of the i-th action>", no two entries share a key, every action
\* that is dispatched gets its result as the entry of its position, whatever
\* its outcome, and the walk ends with the mapping returned.
C1_OneResultPerAction ==
  /\ EntriesInPlanOrder
  /\ ret.op = "execute_plan" =>
       (pc = "walk" /\ ret.index = idx /\ results[idx].value = ret.res)
  /\ pc = "done" => Len(results) = Len(runPlan.actions)

\* the claim for the walks no exception ends
C1_EntriesUnlessRaised ==
  /\ EntriesInPlanOrder
  /\ (ret.op = "execute_plan" /\ ~ret.raised) =>
       (pc = "walk" /\ ret.index = idx /\ results[idx].value = ret.res)
  /\ pc = "done" => Len(results) = Len(runPlan.actions)

\* C3: an action whose type is none of the six recognised ones, or that has
\* no type, gets a result with success = false whose message contains the
\* type name; the tree and the version-control state are left as they were,
\* no Executor operation and no external process is invoked for it, and the
\* walk goes on.
C3_UnknownTypeFails ==
  (ret.op = "execute_plan" /\ ~Recognised(ret.action)) =>
    /\ ~ret.raised
    /\ ~ret.res.success
    /\ Contains(ret.res.message, TypeText(ret.action))
    /\ TypeText(ret.action) # <<>>
    /\ fs = ret.before.fs
    /\ git = ret.before.git
    /\ ret.calls = <<>>
    /\ pc = "walk"
    /\ results[idx].value = ret.res

\* an action without a type was dispatched as the second action of a plan
C3_Witness ==
  /\ ret.op = "execute_plan"
  /\ ~ret.action.hasType
  /\ ret.index = 2
  /\ Contains(ret.res.message, Msg.None)

\* C10: the walk of a plan never ends in an exception, whatever the actions
\* hold in "files" and "parameters", and a finished run has written a log
\* with one entry per action.
C10_RunCompletes ==
  /\ ~(ret.op = "execute_plan" /\ ret.raised)
  /\ pc = "done" =>
       /\ logs[clock].present
       /\ Len(logs[clock].entries) = Len(runPlan.actions)

\* a filesystem entry is reached by the path: every component exists, all but
\* the last are directories, and so is the last under a trailing separator
EntryAt(f, p) ==
  \A k \in 1..Len(p.comps) :
    f[SubSeq(p.comps, 1, k)].kind \in
      (IF k < Len(p.comps) \/ p.slash THEN {"dir"} ELSE {"file", "dir"})

\* the operation of ret applied once more, to the tree it has left
PlaceholdersAgain ==
  IF ret.op = "create_placeholders"
    THEN create_placeholders(fs, ret.files, ret.failAt).fs
    ELSE create_placeholder_files(fs, ret.files, ret.failAt).fs

\* C2: placeholder creation, by Executor.create_placeholders and by
\* create_placeholder_files, leaves every entry that existed before the call
\* as it was, creates files empty, and applied a second time changes nothing.
C2_NeverOverwrites ==
  ret.op \in {"create_placeholders", "create_placeholder_files"} =>
    /\ \A n \in Nodes : ret.before[n].kind # "none" => fs[n] = ret.before[n]
    /\ \A n \in Nodes :
         (ret.before[n].kind = "none" /\ fs[n].kind = "file") => fs[n].data = <<>>
    /\ PlaceholdersAgain = fs

\* C4: analyze_deliverables returns as "missing" exactly the required paths
\* at which no filesystem entry is reached, and as "existing" exactly the
\* others, each list in input order and with one element per occurrence.
C4_AnalysisPartitions ==
  ret.op = "analyze_deliverables" =>
    LET Present(p) == EntryAt(fs, p)
        Absent(p) == ~EntryAt(fs, p)
    IN  /\ ret.value.missing = SelectSeq(ret.files, Absent)
        /\ ret.value.existing = SelectSeq(ret.files, Present)
        /\ Len(ret.value.missing) + Len(ret.value.existing) = Len(ret.files)
        /\ \A j \in 1..Len(ret.value.missing) : \A k \in 1..Len(ret.value.existing) :
             ret.value.missing[j] # ret.value.existing[k]

\* an analysis that found one path present and another one missing
C4_Witness ==
  /\ ret.op = "analyze_deliverables"
  /\ ret.value.missing # <<>>
  /\ ret.value.existing # <<>>

IsCreateStep(step) == StartsWith(step, Step.Create)

IsVerifyStep(step) == StartsWith(step, Step.Verify)

\* C5: the plan generate_plan stores and returns has the "create missing
\* files" step if and only if some required path is missing, has the "verify
\* existing files" step before it, ends with the five fixed steps in their
\* order, and has one of two shapes (seven or eight steps); a second call
\* replaces the stored plan.
C5_PlanShape ==
  ret.op = "generate_plan" =>
    LET p == planner.plan
        n == Len(p)
        someMissing == \E k \in 1..Len(ret.files) : ~EntryAt(fs, ret.files[k])
    IN  /\ p = ret.value
        /\ (\E k \in 1..n : IsCreateStep(p[k])) <=> someMissing
        /\ \E v \in 1..n :
             /\ IsVerifyStep(p[v])
             /\ \A k \in 1..n : IsCreateStep(p[k]) => v < k
        /\ n >= 5
        /\ SubSeq(p, n - 4, n) = <<Step.Readme, Step.Tests, Step.Commit, Step.Push, Step.Email>>
        /\ n = (IF someMissing THEN 8 ELSE 7)
        /\ Cardinality({k \in 1..n : IsCreateStep(p[k])}) <= 1

\* a second call of generate_plan, made after the missing paths were
\* created, stored the plan without the create step over the one with it
C5_Witness ==
  /\ ret.op = "generate_plan"
  /\ Len(ret.previous) = 8
  /\ Len(planner.plan) = 7

\* C6: when no test directory exists under the repository root, run_tests
\* returns success = true with a message that says the run was skipped, and
\* the test runner is not launched.
C6_NoTestsSkips ==
  (ret.op = "run_tests" /\ ~EntryAt(fs, PlainPath(<<"tests">>))) =>
    /\ ret.res.success
    /\ Contains(LowerText(ret.res.message), Kw.Skip)
    /\ ~ret.launched

\* run_tests was called without a test directory, in an environment where
\* the runner would have failed
C6_Witness ==
  /\ ret.op = "run_tests"
  /\ fs[<<"tests">>].kind = "none"
  /\ ret.outcome = "exit1"
  /\ ret.res.success

\* C7: assert_readme_fields fails on an absent README; on a README holding
\* all seven markers it succeeds with an empty list of missing patterns; on
\* a README from which one marker was taken out it fails and lists the
\* pattern of that marker.
C7_ReadmeFields ==
  ret.op = "assert_readme_fields" =>
    /\ fs[ReadmeNode].kind = "none" => ~ret.res.success
    /\ \A m \in MarkerChoices :
         (fs[ReadmeNode].kind = "file" /\ fs[ReadmeNode].data = ReadmeOf(m)) =>
           /\ (\A n \in 1..7 : m[n] # 0) =>
                (ret.res.success /\ ret.res.details.texts = <<>>)
           /\ \A n \in 1..7 : m[n] = 0 =>
                /\ ~ret.res.success
                /\ \E j \in 1..Len(ret.res.details.texts) :
                     ret.res.details.texts[j] = required_patterns[n]

\* the check ran on a README that lacks only its how-to-run marker
C7_Witness ==
  /\ ret.op = "assert_readme_fields"
  /\ ~ret.res.success
  /\ ret.res.details.texts = <<Pat.HowToRun>>

\* the first line of a text that is not empty (empty if there is none)
FirstNonEmptyLine(text) ==
  LET ls == SplitLines(text)
  IN  IF \E k \in 1..Len(ls) : ls[k] # <<>>
        THEN ls[CHOOSE k \in 1..Len(ls) : ls[k] # <<>> /\ \A j \in 1..(k - 1) : ls[j] = <<>>]
        ELSE <<>>

\* C8: for a non-empty recipient list, the draft of each of the three
\* producers (generate_email_draft, Executor.create_email_draft, save_draft)
\* has every recipient on its first non-empty line and the student name on
\* its subject line.
C8_RecipientsFirst ==
  (/\ ret.op \in {"generate_email_draft", "save_draft", "create_email_draft"}
   /\ ret.recipients # <<>>
   /\ ret.op = "create_email_draft" => ret.res.success
   /\ ret.op = "save_draft" => ~ret.raised) =>
    LET ls == SplitLines(ret.value)
    IN  /\ \A k \in 1..Len(ret.recipients) :
             Contains(FirstNonEmptyLine(ret.value), ret.recipients[k])
        /\ \E k \in 1..Len(ls) :
             StartsWith(ls[k], Kw.Subject) /\ Contains(ls[k], ret.student_name)

IsBulletLine(line) == StartsWith(line, Rd.Bullet)

\* C9: the README generate_readme returns holds the student, university and
\* department fields and the repository URL as given, and its bullet lines
\* are "- <item>" for the items of the deliverables list, one line per
\* element, in input order, repeated elements included.
C9_ReadmeRendersInputs ==
  ret.op = "generate_readme" =>
    LET ls == SplitLines(ret.value)
    IN  /\ Contains(ret.value, Rd.StudentField \o ret.student_name)
        /\ Contains(ret.value, Rd.UniversityField \o ret.university)
        /\ Contains(ret.value, Rd.DepartmentField \o ret.department)
        /\ \E k \in 1..Len(ls) : ls[k] = ret.repo_url
        /\ SelectSeq(ls, IsBulletLine) =
             [k \in 1..Len(ret.deliverables) |-> Rd.Bullet \o ret.deliverables[k]]

\* a README generated for a list that names the same deliverable twice
C9_Witness ==
  /\ ret.op = "generate_readme"
  /\ Len(ret.deliverables) = 2
  /\ ret.deliverables[1] = ret.deliverables[2]


\* the Executor operation the dispatch calls for an action, none for a
\* delegated README and for an unknown type
AttemptOf(action) ==
  IF ~action.hasType THEN <<>>
  ELSE IF action.type = ActionType.create_missing_files THEN <<"create_placeholders">>
  ELSE IF action.type = ActionType.run_tests THEN <<"run_tests">>
  ELSE IF action.type = ActionType.git_commit THEN <<"git_commit">>
  ELSE IF action.type = ActionType.git_push THEN <<"git_push">>
  ELSE IF action.type = ActionType.generate_email THEN <<"create_email_draft">>
  ELSE <<>>

RECURSIVE AttemptsOf(_)
\* the operations a walk over the actions calls, in plan order
AttemptsOf(actions) ==
  IF actions = <<>> THEN <<>>
  ELSE AttemptOf(Head(actions)) \o AttemptsOf(Tail(actions))

\* the calls of Executor operations, without the launches of the test runner
OperationCalls == SelectSeq(calls, LAMBDA c : c # "pytest")

\* C11: execute_plan attempts every action exactly once, in plan order: the
\* operations called so far are those of the actions walked so far, the walk
\* goes on after every action whatever its outcome, and a finished run has
\* walked the whole plan.
C11_EveryActionAttempted ==
  /\ pc \in {"walk", "done"} => OperationCalls = AttemptsOf(SubSeq(runPlan.actions, 1, idx))
  /\ ret.op = "execute_plan" => (pc = "walk" /\ ret.index = idx)
  /\ pc = "done" => idx = Len(runPlan.actions)

\* the claim for the walks no exception ends
C11_AttemptedUnlessRaised ==
  /\ pc \in {"walk", "done"} => OperationCalls = AttemptsOf(SubSeq(runPlan.actions, 1, idx))
  /\ (ret.op = "execute_plan" /\ ~ret.raised) => (pc = "walk" /\ ret.index = idx)
  /\ pc = "done" => idx = Len(runPlan.actions)

\* neither the working tree nor the index holds a change: the files of the
\* tree are those staged and the staged ones are those of the last commit
NothingToCommit(g) == WorkTree(fs, logs) = g.index /\ g.index = g.head

\* C12: a commit operation that finds the repository and whose tool does not
\* fail makes a commit only if there are changes; with nothing to commit it
\* makes no commit and reports success, and committing once more right after
\* it adds no second commit. This for Executor.git_commit on both of its
\* paths and for git_commit of the module agent/executor.py.
C12_CommitOnlyChanges ==
  /\ (ret.op = "git_commit" /\ ret.before.isRepo /\ ret.out = "ok") =>
       /\ git.commits > ret.before.commits => ~NothingToCommit(ret.before)
       /\ NothingToCommit(ret.before) =>
            (git.commits = ret.before.commits /\ ret.res.success)
       /\ git_commit(fs, logs, git, "ok").git.commits <= ret.before.commits + 1
       /\ git_commit(fs, logs, git, "ok").res.success
  /\ (ret.op = "module_git_commit" /\ ~ret.raised) =>
       /\ git.commits > ret.before.commits => ~NothingToCommit(ret.before)
       /\ NothingToCommit(ret.before) => git.commits = ret.before.commits
       /\ module_git_commit(fs, git, "ok").git.commits <= ret.before.commits + 1

\* the part of C12 that is about the library-binding path of Executor.git_commit
C12_LibraryPath ==
  (ret.op = "git_commit" /\ ret.before.lib) => C12_CommitOnlyChanges

\* C13: a test run that launched the runner reports success exactly when the
\* runner exited with code zero; a runner that is not found or that runs
\* into the timeout gives a failure whose message carries the text of the
\* exception. This for Executor.run_tests and, as a truth value, for
\* run_validation_tests of the module agent/executor.py.
C13_SuccessIffExitZero ==
  /\ (ret.op = "run_tests" /\ ret.launched) =>
       /\ ret.res.success <=> ret.outcome = "exit0"
       /\ ret.outcome = "notfound" => Contains(ret.res.message, Err.NoRunner)
       /\ ret.outcome = "timeout" => Contains(ret.res.message, Err.Timeout)
  /\ ret.op = "run_validation_tests" => (ret.value <=> ret.outcome = "exit0")

\* the part of C13 that is about Executor.run_tests
C13_ExecutorRunTests == ret.op = "run_tests" => C13_SuccessIffExitZero

\* the commit operation failed: no repository at the path, the tool could
\* not be started or its staging step failed, its commit step was reached
\* (the tree differs from the last commit, or the command line is used, which
\* always reaches it) and failed, or the command line was asked to commit a
\* tree that is the last commit and exited with a non-zero status
CommitFailure(g, out) ==
  \/ ~g.isRepo
  \/ out \in {"nogit", "add128"}
  \/ out = "commit1" /\ (WorkTree(fs, logs) # g.head \/ ~g.lib)
  \/ out = "commit128" /\ ~g.lib
  \/ ~g.lib /\ WorkTree(fs, logs) = g.head

\* the push did not reach the remote: no repository, no "origin" remote, a
\* tool that could not be started, a push that failed as a whole or a
\* branch the remote rejected
PushFailure(g, push) == ~g.isRepo \/ ~g.hasOrigin \/ push # "pushed"

\* the text of the error is part of the message: that of an exception of
\* the command line, the path a missing directory or repository is reported
\* with, or the text str(e) of an exception of the library binding, which
\* follows the words of the last handler
CarriesErrorText(message) ==
  \/ \E e \in {Err.NoGit, Err.AddExit128, Err.CommitExit1, Err.CommitExit128, Err.PushExit1,
              Err.PushExit128, Name.root} :
       Contains(message, e)
  \/ \E words \in {Msg.GitPythonCommitFailed, Msg.GitPythonPushFailed} :
       StartsWith(message, words) /\ Len(message) > Len(words)

\* C14: Executor.git_commit and Executor.git_push never raise; whenever the
\* commit or the push failed the result has success = false and a message
\* that carries the error text, and success = true is returned only when
\* nothing failed.
C14_GitFailuresReported ==
  /\ ret.op = "git_commit" =>
       /\ ~ret.raised
       /\ CommitFailure(ret.before, ret.out) =>
            (~ret.res.success /\ CarriesErrorText(ret.res.message))
       /\ ret.res.success => ~CommitFailure(ret.before, ret.out)
  /\ ret.op = "git_push" =>
       /\ ~ret.raised
       /\ PushFailure(ret.before, ret.push) =>
            (~ret.res.success /\ CarriesErrorText(ret.res.message))
       /\ ret.res.success => (~PushFailure(ret.before, ret.push) /\ git.pushes > ret.before.pushes)

\* the part of C14 that is about failures the Executor sees as an exception
C14_ExceptionsReported ==
  (ret.op \in {"git_commit", "git_push"}
     /\ ~(ret.op = "git_push" /\ ret.before.lib /\ ret.push = "rejected")) =>
    C14_GitFailuresReported

\* C15: when Executor.create_placeholders fails, it fails on some k-th path
\* of its list: the message names that path, the tree is the one that the
\* placeholders of the paths 1..k-1 alone leave (they are all there, nothing
\* of a later path was attempted), and the k-th path could indeed not be
\* created; when it succeeds, every path of the list was ensured and is
\* listed as created.
C15_StopsAtFirstFailure ==
  ret.op = "create_placeholders" =>
    LET files == ret.files
        done(k) == create_placeholders(ret.before, SubSeq(files, 1, k - 1), 0)
    IN  IF ret.res.success
          THEN /\ done(Len(files) + 1).res.success
               /\ fs = done(Len(files) + 1).fs
               /\ ret.res.details.paths = files
               /\ \A j \in 1..Len(files) : Exists(fs, files[j])
          ELSE \E k \in 1..Len(files) :
                 /\ done(k).res.success
                 /\ fs = done(k).fs
                 /\ Contains(ret.res.message, Msg.FailedCreating \o PathText(files[k]))
                 /\ \A j \in 1..(k - 1) : Exists(fs, files[j])
                 /\ ~ensure_path(fs, files[k], k = ret.failAt).ok

\* the second of two paths failed after the first one had been created
C15_Witness ==
  /\ ret.op = "create_placeholders"
  /\ ~ret.res.success
  /\ Len(ret.files) = 2
  /\ ~Exists(ret.before, ret.files[1])
  /\ Exists(fs, ret.files[1])
  /\ Contains(ret.res.message, PathText(ret.files[2]))
  /\ ~Exists(fs, ret.files[2])

\* C16: a run that writes its log creates a file that was not there: no log
\* written by an earlier run is replaced, whatever the second in which the
\* run finishes, and every other log is left as it was.
C16_LogsNeverRewritten ==
  (ret.op = "write_log" /\ ~ret.raised) =>
    /\ ~ret.before[ret.second].present
    /\ \A t \in 1..MaxClock : t # ret.second => logs[t] = ret.before[t]

\* C17: right after a successful Executor.create_placeholders(files), on the
\* tree it left, Executor.validate_required(files) succeeds with an empty
\* missing list, the planner finds no path of the list missing, and the plan
\* it generates for the list has no "create missing files" step.
C17_CreatedThenValid ==
  (ret.op = "create_placeholders" /\ ret.res.success) =>
    LET v == validate_required(fs, ret.files)
        plan == generate_plan(fs, ret.files, <<>>)
    IN  /\ v.success
        /\ v.details.paths = <<>>
        /\ analyze_deliverables(fs, ret.files).missing = <<>>
        /\ \A k \in 1..Len(plan) : ~IsCreateStep(plan[k])
        /\ Len(plan) = 7

\* a successful call created a directory-marked path and a nested path
C17_Witness ==
  /\ ret.op = "create_placeholders"
  /\ ret.res.success
  /\ \E j \in 1..Len(ret.files) : ret.files[j].slash /\ ~Exists(ret.before, ret.files[j])
  /\ \E j \in 1..Len(ret.files) :
       /\ ~ret.files[j].slash
       /\ Len(ret.files[j].comps) = 2
       /\ ~Exists(ret.before, ret.files[j])

\* C18: on every tree and for every list of required paths the three scans
\* give the same list of missing paths: Executor.validate_required,
\* validate_deliverables and DeliverablePlanner.analyze_deliverables.
C18_ScannersAgree ==
  /\ ret.op = "validate_required" =>
       /\ ret.res.details.paths = validate_deliverables(fs, ret.files)
       /\ ret.res.details.paths = analyze_deliverables(fs, ret.files).missing
  /\ ret.op = "validate_deliverables" =>
       /\ ret.missing = validate_required(fs, ret.files).details.paths
       /\ ret.missing = analyze_deliverables(fs, ret.files).missing

\* the part of C18 that is about the two scans that test the path as written
C18_PlannerAndModuleAgree ==
  ret.op = "validate_deliverables" =>
    ret.missing = analyze_deliverables(fs, ret.files).missing

\* the scans agree wherever no regular file sits at a directory-marked path
C18_AgreeUnlessFileAtDirectoryPath ==
  (ret.op \in {"validate_required", "validate_deliverables"}
     /\ \A j \in 1..Len(ret.files) :
          ret.files[j].slash => fs[ret.files[j].comps].kind # "file") =>
    C18_ScannersAgree

\* C19: the text generate_readme returns passes both validators:
\* validate_readme of the same generator maps every field to true, and once
\* save_readme has written the text to README.md, which it does whenever the
\* repository directory exists, assert_readme_fields succeeds with no
\* missing pattern.
C19_GeneratedReadmeValid ==
  ret.op = "generate_readme" =>
    LET v == validate_readme(ret.student_name, ret.university, ret.department, ret.value)
        saved == WriteFile(fs, ReadmeNode, ret.value, FALSE)
        r == assert_readme_fields(saved.fs)
    IN  /\ v.has_student_name /\ v.has_university /\ v.has_department
        /\ v.has_deliverables_section /\ v.has_how_to_run /\ v.has_contact
        /\ saved.ok <=> fs[Root].kind = "dir"
        /\ saved.ok => (r.success /\ r.details.texts = <<>>)

\* a README generated with no deliverable, no how-to-run text and no contact
C19_Witness ==
  /\ ret.op = "generate_readme"
  /\ ret.deliverables = <<>>
  /\ ret.how_to_run = <<>>
  /\ ret.contact_email = <<>>
  /\ Contains(ret.value, Rd.DefaultContact)
  /\ WriteFile(fs, ReadmeNode, ret.value, FALSE).ok
====
